---- MODULE Spec2Model ----
(***************************************************************************)
(* Model of the commerce-agent chat action: the SessionManager (session    *)
(* store), the AgentOrchestrator (intent analysis, tool execution,         *)
(* response generation), the built-in tool registry and the main handler.  *)
(***************************************************************************)
EXTENDS Integers, Sequences, FiniteSets, TLC

(***************************************************************************)
(* Bounds of the model.                                                    *)
(***************************************************************************)
MaxSessions == 2
MaxCalls == 4
MaxTurns == 1
MaxMessages == 3

(***************************************************************************)
(* Program constants.                                                      *)
(***************************************************************************)
HistoryLimit == 50
DefaultHistoryLimit == 10
ToolsHistoryWindow == 6
DirectHistoryWindow == 10

(***************************************************************************)
(* Generic helpers: JavaScript values.                                     *)
(***************************************************************************)
Null == "null"

Has(obj, field) == field \in DOMAIN obj

Put(obj, field, value) ==
  [k \in (DOMAIN obj) \cup {field} |-> IF k = field THEN value ELSE obj[k]]

EmptyObject == [k \in {} |-> Null]

Min(a, b) == IF a < b THEN a ELSE b

Max(a, b) == IF a > b THEN a ELSE b

\* Array.prototype.slice(start) with one (possibly negative) argument.
Slice(arr, start) ==
  LET begin == IF start < 0 THEN Max(Len(arr) + start, 0) ELSE Min(start, Len(arr))
  IN SubSeq(arr, begin + 1, Len(arr))

(***************************************************************************)
(* Strings are sequences of one-character strings.                         *)
(***************************************************************************)
UpperChars == <<"A","B","C","D","E","F","G","H","I","J","K","L","M",
                "N","O","P","Q","R","S","T","U","V","W","X","Y","Z">>

LowerChars == <<"a","b","c","d","e","f","g","h","i","j","k","l","m",
                "n","o","p","q","r","s","t","u","v","w","x","y","z">>

LowerChar(c) ==
  IF \E i \in 1..Len(UpperChars) : UpperChars[i] = c
  THEN LowerChars[CHOOSE i \in 1..Len(UpperChars) : UpperChars[i] = c]
  ELSE c

toLowerCase(str) == [i \in 1..Len(str) |-> LowerChar(str[i])]

includes(str, sub) ==
  \E i \in 0..(Len(str) - Len(sub)) : SubSeq(str, i + 1, i + Len(sub)) = sub

DigitChars == <<"0","1","2","3","4","5","6","7","8","9">>

(***************************************************************************)
(* Input domains.                                                          *)
(***************************************************************************)
MsgShowRedShirts ==
  <<"s","h","o","w"," ","m","e"," ","r","e","d"," ","s","h","i","r","t","s">>
MsgShowCart == <<"S","h","o","w"," ","c","a","r","t">>
MsgMyCart == <<"m","y"," ","C","a","r","t">>
MsgHello == <<"h","e","l","l","o">>
MsgShowFirst ==
  <<"s","h","o","w"," ","m","e"," ","t","h","e"," ","f","i","r","s","t"," ","o","n","e">>
EmptyString == <<>>

UserMessages == {MsgShowRedShirts, MsgShowCart, MsgMyCart, MsgHello}

CustomerTokens == {"tokA", "tokB"}
CallerCart == "cartP"
ClassifierCart == "cartL"
BackendCart == "cartN"
BogusSessionId == 0
SessionIds == 1..MaxSessions

Roles == {"user", "assistant"}

VARIABLES
  sessions,   \* SessionManager.sessions: the in-memory cache, sessionId -> session
  storage,    \* SessionManager.storage: [configured, data]
  nextId,     \* the next identifier uuidv4() hands out
  calls,      \* number of SessionManager calls made by clients so far
  ret,        \* outcome of the last SessionManager call made by a client
  req,        \* the request main() is serving
  turns,      \* number of requests received so far
  client,     \* what the caller holds of the last 200 response it received
  inflight    \* the addMessage calls in progress at the same time

vars == <<sessions, storage, nextId, calls, ret, req, turns, client, inflight>>

storeVars == <<sessions, storage, nextId, calls, ret>>

(***************************************************************************)
(* SessionManager (src/unnamed/part_004).                                  *)
(***************************************************************************)
NoStorage == [configured |-> FALSE, data |-> EmptyObject]

\* loadSession: does the id resolve (cache first, then the backing store)?
Resolves(cache, store, sessionId, getOk) ==
  \/ sessionId \in DOMAIN cache
  \/ store.configured /\ getOk /\ sessionId \in DOMAIN store.data

\* loadSession: the session object it returns when the id resolves.
loadSession(cache, store, sessionId) ==
  IF sessionId \in DOMAIN cache THEN cache[sessionId] ELSE store.data[sessionId]

\* loadSession: the cache afterwards (a session read from storage is cached).
CacheAfterLoad(cache, store, sessionId, getOk) ==
  IF sessionId \notin DOMAIN cache /\ Resolves(cache, store, sessionId, getOk)
  THEN Put(cache, sessionId, store.data[sessionId])
  ELSE cache

\* saveSession: the cache afterwards.
SaveToCache(cache, session) == Put(cache, session.sessionId, session)

\* saveSession: the backing store afterwards; a failing set is swallowed.
\* In the mutant the session is kept in the cache only.
SaveToStorageMutant(store, session, setOk) == store

\* In this mutant the store holds one record for all keys.
SaveToStorageOneKey(store, session, setOk) ==
  IF store.configured /\ setOk
  THEN [store EXCEPT !.data =
          [k \in (DOMAIN @) \cup {session.sessionId} |-> session]]
  ELSE store

SaveToStorage(store, session, setOk) ==
  IF store.configured /\ setOk
  THEN [store EXCEPT !.data = Put(@, session.sessionId, session)]
  ELSE store

\* createSession: the new session object.
NewSession(id, params) ==
  [sessionId |-> id,
   userType |-> IF Has(params, "customerToken") THEN "logged-in" ELSE "guest",
   customerToken |-> IF Has(params, "customerToken") THEN params.customerToken ELSE Null,
   cartId |-> IF Has(params, "cartId") THEN params.cartId ELSE Null,
   conversationHistory |-> <<>>]

\* getOrCreateSession: the upgrade of an existing guest session.
UpgradeMutant(session, params) ==
  IF Has(params, "customerToken")
  THEN [session EXCEPT !.customerToken = params.customerToken, !.userType = "logged-in"]
  ELSE [session EXCEPT !.customerToken = Null, !.userType = "guest"]

\* An upgrade that stores the token and leaves the session a guest.
UpgradeTokenOnly(session, params) ==
  IF Has(params, "customerToken") /\ session.customerToken = Null
  THEN [session EXCEPT !.customerToken = params.customerToken]
  ELSE session

\* In this mutant a supplied token replaces the one the session holds.
UpgradeReplaces(session, params) ==
  IF Has(params, "customerToken")
  THEN [session EXCEPT !.customerToken = params.customerToken, !.userType = "logged-in"]
  ELSE session

Upgrade(session, params) ==
  IF Has(params, "customerToken") /\ session.customerToken = Null
  THEN [session EXCEPT !.customerToken = params.customerToken, !.userType = "logged-in"]
  ELSE session

\* addMessage: history limited to the last 50 messages.
TrimHistoryMutant(history) == history

TrimHistory(history) ==
  IF Len(history) > HistoryLimit THEN Slice(history, 0 - HistoryLimit) ELSE history

\* addMessage: the message object.
NewMessage(role, content, metadata) ==
  [k \in {"role", "content"} \cup DOMAIN metadata |->
     IF k = "role" THEN role ELSE IF k = "content" THEN content ELSE metadata[k]]

\* Marks a parameter the caller did not supply.
NoSessionId == 0 - 1

SessionParams ==
  [sessionId : SessionIds \cup {BogusSessionId, NoSessionId},
   customerToken : CustomerTokens \cup {Null},
   cartId : {CallerCart, Null}]

Supplied(p, f) == IF f = "sessionId" THEN p[f] # NoSessionId ELSE p[f] # Null

\* The fields of a params object that are set (truthy).
Given(p) ==
  [k \in {f \in DOMAIN p : Supplied(p, f)} |-> p[k]]

\* getOrCreateSession(params): session id it returns, and the store afterwards.
\* Returns [cache, store, nextId, sessionId]. In the mutant a session is
\* created for every call.
getOrCreateSessionMutant(cache, store, next, params, getOk, setOk) ==
  [cache |-> SaveToCache(cache, NewSession(next, params)),
   store |-> SaveToStorage(store, NewSession(next, params), setOk),
   nextId |-> next + 1,
   sessionId |-> next]

\* In this mutant an existing session takes the cart the caller supplied.
getOrCreateSessionAdoptsCart(cache, store, next, params, getOk, setOk) ==
  IF Has(params, "sessionId") /\ Resolves(cache, store, params.sessionId, getOk)
  THEN LET loaded == CacheAfterLoad(cache, store, params.sessionId, getOk)
           upgraded == Upgrade(loaded[params.sessionId], params)
           adopted == IF Has(params, "cartId")
                      THEN [upgraded EXCEPT !.cartId = params.cartId]
                      ELSE upgraded
       IN [cache |-> SaveToCache(loaded, adopted),
           store |-> SaveToStorage(store, adopted, setOk),
           nextId |-> next,
           sessionId |-> params.sessionId]
  ELSE [cache |-> SaveToCache(cache, NewSession(next, params)),
        store |-> SaveToStorage(store, NewSession(next, params), setOk),
        nextId |-> next + 1,
        sessionId |-> next]

getOrCreateSession(cache, store, next, params, getOk, setOk) ==
  IF Has(params, "sessionId") /\ Resolves(cache, store, params.sessionId, getOk)
  THEN LET loaded == CacheAfterLoad(cache, store, params.sessionId, getOk)
           existing == loaded[params.sessionId]
           upgraded == Upgrade(existing, params)
       IN IF upgraded # existing
          THEN [cache |-> SaveToCache(loaded, upgraded),
                store |-> SaveToStorage(store, upgraded, setOk),
                nextId |-> next,
                sessionId |-> params.sessionId]
          ELSE [cache |-> loaded, store |-> store, nextId |-> next,
                sessionId |-> params.sessionId]
  ELSE [cache |-> SaveToCache(cache, NewSession(next, params)),
        store |-> SaveToStorage(store, NewSession(next, params), setOk),
        nextId |-> next + 1,
        sessionId |-> next]

\* addMessage(sessionId, role, content, metadata) on a session that resolves.
addMessage(cache, store, sessionId, role, content, metadata, getOk, setOk) ==
  LET loaded == CacheAfterLoad(cache, store, sessionId, getOk)
      session == loaded[sessionId]
      pushed == Append(session.conversationHistory, NewMessage(role, content, metadata))
      saved == [session EXCEPT !.conversationHistory = TrimHistory(pushed)]
  IN [cache |-> SaveToCache(loaded, saved),
      store |-> SaveToStorage(store, saved, setOk)]

\* getHistory(sessionId, limit).
getHistoryMutant(cache, store, sessionId, limit, getOk) == <<>>

getHistory(cache, store, sessionId, limit, getOk) ==
  IF Resolves(cache, store, sessionId, getOk)
  THEN Slice(loadSession(cache, store, sessionId).conversationHistory, 0 - limit)
  ELSE <<>>

\* updateCartId(sessionId, cartId): [cache, store, threw].
updateCartIdMutant(cache, store, sessionId, cartId, getOk, setOk) ==
  IF ~Resolves(cache, store, sessionId, getOk)
  THEN [cache |-> cache, store |-> store, threw |-> FALSE]
  ELSE LET loaded == CacheAfterLoad(cache, store, sessionId, getOk)
           saved == [loaded[sessionId] EXCEPT !.cartId = cartId]
       IN [cache |-> SaveToCache(loaded, saved),
           store |-> SaveToStorage(store, saved, setOk),
           threw |-> FALSE]

updateCartId(cache, store, sessionId, cartId, getOk, setOk) ==
  IF ~Resolves(cache, store, sessionId, getOk)
  THEN [cache |-> cache, store |-> store, threw |-> TRUE]
  ELSE LET loaded == CacheAfterLoad(cache, store, sessionId, getOk)
           saved == [loaded[sessionId] EXCEPT !.cartId = cartId]
       IN [cache |-> SaveToCache(loaded, saved),
           store |-> SaveToStorage(store, saved, setOk),
           threw |-> FALSE]

\* clearHistory(sessionId): [cache, store, threw].
clearHistoryMutant(cache, store, sessionId, getOk, setOk) ==
  LET session == IF Resolves(cache, store, sessionId, getOk)
                 THEN CacheAfterLoad(cache, store, sessionId, getOk)[sessionId]
                 ELSE NewSession(sessionId, EmptyObject)
      saved == [session EXCEPT !.conversationHistory = <<>>]
  IN [cache |-> SaveToCache(cache, saved),
      store |-> SaveToStorage(store, saved, setOk),
      threw |-> FALSE]

clearHistory(cache, store, sessionId, getOk, setOk) ==
  IF ~Resolves(cache, store, sessionId, getOk)
  THEN [cache |-> cache, store |-> store, threw |-> FALSE]
  ELSE LET loaded == CacheAfterLoad(cache, store, sessionId, getOk)
           saved == [loaded[sessionId] EXCEPT !.conversationHistory = <<>>]
       IN [cache |-> SaveToCache(loaded, saved),
           store |-> SaveToStorage(store, saved, setOk),
           threw |-> FALSE]

\* deleteSession(sessionId): [cache, store]; a failing delete is swallowed.
deleteSession(cache, store, sessionId, deleteOk) ==
  [cache |-> [k \in (DOMAIN cache) \ {sessionId} |-> cache[k]],
   store |-> IF store.configured /\ deleteOk
             THEN [store EXCEPT !.data = [k \in (DOMAIN @) \ {sessionId} |-> @[k]]]
             ELSE store]

(***************************************************************************)
(* SessionManager calls made by an arbitrary client of the store.          *)
(***************************************************************************)
\* The exploration stops after MaxCalls client calls.
Budget ==
  /\ calls < MaxCalls
  /\ calls' = calls + 1

\* loadSession, lines 91-99: storage.get is called on a cache miss and throws.
GetThrows(cache, store, sessionId, getOk) ==
  store.configured /\ sessionId \notin DOMAIN cache /\ ~getOk

\* saveSession, lines 116-122: storage.set is called and throws.
SetThrows(store, setOk) == store.configured /\ ~setOk

\* The session ids a client can name: those uuidv4() has handed out so far
\* and one that was never handed out.
IssuedIds == 1..(nextId - 1)

ClientIds == IssuedIds \cup {BogusSessionId}

\* The parameters clients pass to getOrCreateSession; with a backing store
\* the clients explored are anonymous shoppers without a cart.
ClientParams ==
  IF storage.configured
  THEN {p \in SessionParams : p.customerToken = Null /\ p.cartId = Null}
  ELSE SessionParams

ClientRoles == IF storage.configured THEN {"user"} ELSE Roles

CallGetOrCreateSession ==
  \E p \in ClientParams, getOk \in BOOLEAN, setOk \in BOOLEAN :
    LET params == Given(p)
        out == getOrCreateSession(sessions, storage, nextId, params, getOk, setOk)
    IN /\ Budget
       /\ p.sessionId \in ClientIds \cup {NoSessionId}
       /\ (storage.configured \/ (getOk /\ setOk))
       /\ out.nextId <= MaxSessions + 1
       /\ sessions' = out.cache
       /\ storage' = out.store
       /\ nextId' = out.nextId
       /\ ret' = [op |-> "getOrCreateSession", threw |-> FALSE,
                  sessionId |-> out.sessionId, params |-> params,
                  storageError |->
                    \/ /\ Has(params, "sessionId")
                       /\ GetThrows(sessions, storage, params.sessionId, getOk)
                    \/ /\ <<out.cache, out.nextId>> #
                            <<CacheAfterLoad(sessions, storage, p.sessionId, getOk),
                              nextId>>
                       /\ SetThrows(storage, setOk)]
       /\ UNCHANGED <<req, turns, client, inflight>>

CallAddMessage ==
  \E sid \in ClientIds, role \in ClientRoles,
     content \in {MsgHello}, getOk \in BOOLEAN, setOk \in BOOLEAN :
    /\ Budget
    /\ (storage.configured \/ (getOk /\ setOk))
    /\ IF Resolves(sessions, storage, sid, getOk)
       THEN LET out == addMessage(sessions, storage, sid, role, content,
                                  EmptyObject, getOk, setOk)
            IN /\ sessions' = out.cache
               /\ storage' = out.store
               /\ ret' = [op |-> "addMessage", threw |-> FALSE, sessionId |-> sid,
                          message |-> NewMessage(role, content, EmptyObject),
                          resolved |-> TRUE,
                          storageError |-> \/ GetThrows(sessions, storage, sid, getOk)
                                           \/ SetThrows(storage, setOk)]
       ELSE /\ ret' = [op |-> "addMessage", threw |-> TRUE, sessionId |-> sid,
                       resolved |-> FALSE,
                       storageError |-> GetThrows(sessions, storage, sid, getOk)]
            /\ UNCHANGED <<sessions, storage>>
    /\ UNCHANGED <<nextId, req, turns, client, inflight>>

\* The limits a caller passes to getHistory; an omitted limit is the default.
HistoryLimits == {0, 1, DefaultHistoryLimit}

CallGetHistory ==
  \E sid \in ClientIds, limit \in HistoryLimits, getOk \in BOOLEAN :
    /\ Budget
    /\ (storage.configured \/ getOk)
    /\ sessions' = CacheAfterLoad(sessions, storage, sid, getOk)
    /\ ret' = [op |-> "getHistory", threw |-> FALSE, sessionId |-> sid,
               limit |-> limit,
               history |-> getHistory(sessions, storage, sid, limit, getOk),
               resolved |-> Resolves(sessions, storage, sid, getOk),
               storageError |-> GetThrows(sessions, storage, sid, getOk)]
    /\ UNCHANGED <<storage, nextId, req, turns, client, inflight>>

CallUpdateCartId ==
  \E sid \in ClientIds, cart \in {BackendCart},
     getOk \in BOOLEAN, setOk \in BOOLEAN :
    LET out == updateCartId(sessions, storage, sid, cart, getOk, setOk)
    IN /\ Budget
       /\ (storage.configured \/ (getOk /\ setOk))
       /\ sessions' = out.cache
       /\ storage' = out.store
       /\ ret' = [op |-> "updateCartId", threw |-> out.threw, sessionId |-> sid,
                  resolved |-> Resolves(sessions, storage, sid, getOk),
                  storageError |->
                    \/ GetThrows(sessions, storage, sid, getOk)
                    \/ /\ Resolves(sessions, storage, sid, getOk)
                       /\ SetThrows(storage, setOk)]
       /\ UNCHANGED <<nextId, req, turns, client, inflight>>

CallClearHistory ==
  \E sid \in ClientIds, getOk \in BOOLEAN, setOk \in BOOLEAN :
    LET out == clearHistory(sessions, storage, sid, getOk, setOk)
    IN /\ Budget
       /\ (storage.configured \/ (getOk /\ setOk))
       /\ sessions' = out.cache
       /\ storage' = out.store
       /\ ret' = [op |-> "clearHistory", threw |-> out.threw, sessionId |-> sid,
                  resolved |-> Resolves(sessions, storage, sid, getOk),
                  storageError |->
                    \/ GetThrows(sessions, storage, sid, getOk)
                    \/ /\ Resolves(sessions, storage, sid, getOk)
                       /\ SetThrows(storage, setOk)]
       /\ UNCHANGED <<nextId, req, turns, client, inflight>>

CallDeleteSession ==
  \E sid \in ClientIds, deleteOk \in BOOLEAN :
    LET out == deleteSession(sessions, storage, sid, deleteOk)
    IN /\ Budget
       /\ (storage.configured \/ deleteOk)
       /\ sessions' = out.cache
       /\ storage' = out.store
       /\ ret' = [op |-> "deleteSession", threw |-> FALSE, sessionId |-> sid,
                  storageError |-> storage.configured /\ ~deleteOk]
       /\ UNCHANGED <<nextId, req, turns, client, inflight>>


(***************************************************************************)
(* addMessage step by step: two calls in progress at the same time. Each   *)
(* call runs up to its next await, where the other call may run. A call    *)
(* holds a session object: the object the cache holds (shared with every   *)
(* other holder of it) or an object the cache no longer holds. storage.get *)
(* of a store that keeps serialised copies returns a new object each time. *)
(***************************************************************************)
ConcurrentSession == 1

\* The two addMessage calls that can be in progress at the same time.
Procs == {"a", "b"}

NoCalls == [call |-> [p \in Procs |-> [pc |-> "idle"]], effected |-> <<>>]

\* A call that has come back: it returned the message or threw.
Returned(sessionId, threw) == [pc |-> "idle", sessionId |-> sessionId, threw |-> threw]

Cached == [shared |-> TRUE]

Detached(session) == [shared |-> FALSE, value |-> session]

\* The calls whose object is the cached one lose it when the cache entry is
\* replaced by another object.
Detach(call, p) ==
  [q \in Procs |->
     IF /\ q # p /\ call[q].pc \in {"loaded", "set"} /\ call[q].obj.shared
        /\ call[q].sessionId = call[p].sessionId
     THEN [call[q] EXCEPT !.obj = Detached(sessions[call[p].sessionId])]
     ELSE call[q]]

\* Lines 128-129 and 83-92: the call enters loadSession; a cache hit returns
\* the cached object, a miss calls storage.get.
BeginAddMessage(p) ==
  LET message == NewMessage("user", <<DigitChars[calls + 2]>>, EmptyObject)
      started == [pc |-> "get", sessionId |-> ConcurrentSession, message |-> message]
  IN /\ Budget
     /\ inflight.call[p].pc = "idle"
     /\ inflight' = [inflight EXCEPT !.call[p] =
          IF ConcurrentSession \in DOMAIN sessions
          THEN Put([started EXCEPT !.pc = "loaded"], "obj", Cached)
          ELSE IF storage.configured THEN started
          ELSE Returned(ConcurrentSession, TRUE)]
     /\ UNCHANGED <<sessions, storage, nextId, ret, req, turns, client>>

\* Lines 92-102: storage.get returns; the session it returned is put in the
\* cache; a failure or an absent session makes addMessage throw (131-133).
StorageGetReturns(p) ==
  \E getOk \in BOOLEAN :
    LET me == inflight.call[p]
        found == getOk /\ me.sessionId \in DOMAIN storage.data
    IN /\ me.pc = "get"
       /\ sessions' = IF found
                      THEN Put(sessions, me.sessionId, storage.data[me.sessionId])
                      ELSE sessions
       /\ inflight' = [inflight EXCEPT !.call =
            IF found
            THEN [Detach(@, p) EXCEPT ![p] = Put([me EXCEPT !.pc = "loaded"], "obj", Cached)]
            ELSE [@ EXCEPT ![p] = Returned(me.sessionId, TRUE)]]
       /\ UNCHANGED <<storage, nextId, calls, ret, req, turns, client>>

\* Lines 135-149 and 108-118: the message is pushed on the call's object, the
\* history is trimmed, the object is put in the cache and storage.set is
\* called with it.
PushMessage(p) ==
  LET me == inflight.call[p]
      session == IF me.obj.shared THEN sessions[me.sessionId] ELSE me.obj.value
      saved == [session EXCEPT !.conversationHistory =
                  TrimHistory(Append(@, me.message))]
  IN /\ me.pc = "loaded"
     /\ sessions' = SaveToCache(sessions, saved)
     /\ inflight' =
          [call |-> [(IF me.obj.shared THEN inflight.call ELSE Detach(inflight.call, p))
                       EXCEPT ![p] = IF storage.configured
                                     THEN [me EXCEPT !.pc = "set", !.obj = Cached]
                                     ELSE Returned(me.sessionId, FALSE)],
           effected |-> Append(inflight.effected, me.message)]
     /\ UNCHANGED <<storage, nextId, calls, ret, req, turns, client>>

\* Lines 118-122 and 151: storage.set returns (a failure is swallowed) and
\* addMessage returns the message. The store keeps the session as it is
\* when the write completes.
StorageSetReturns(p) ==
  \E setOk \in BOOLEAN :
    LET me == inflight.call[p]
        session == IF me.obj.shared THEN sessions[me.sessionId] ELSE me.obj.value
    IN /\ me.pc = "set"
       /\ storage' = SaveToStorage(storage, session, setOk)
       /\ inflight' = [inflight EXCEPT !.call[p] = Returned(me.sessionId, FALSE)]
       /\ UNCHANGED <<sessions, nextId, calls, ret, req, turns, client>>

\* chat/index.js 88-93: a turn that has composed its reply appends the user
\* message and then, when that call has returned, the assistant reply with
\* the turn's toolsUsed and intent. Turn "a" is addressed to the first
\* session; turn "b" to the same session or to another one.
TurnSessions(p) == IF p = "a" THEN {ConcurrentSession} ELSE {ConcurrentSession, 2}

TurnMessage(p, role) ==
  IF role = "user"
  THEN NewMessage("user", <<p>>, EmptyObject)
  ELSE NewMessage("assistant", <<p, p>>, [toolsUsed |-> <<>>, intent |-> "general_question"])

Effected(message) == \E i \in 1..Len(inflight.effected) : inflight.effected[i] = message

BeginTurnMessage(p) ==
  LET me == inflight.call[p]
      role == IF Effected(TurnMessage(p, "user")) THEN "assistant" ELSE "user"
  IN \E sessionId \in (IF Has(me, "sessionId") THEN {me.sessionId} ELSE TurnSessions(p)) :
       LET started == [pc |-> "get", sessionId |-> sessionId,
                       message |-> TurnMessage(p, role)]
       IN /\ me.pc = "idle"
          /\ ~(Has(me, "threw") /\ me.threw)
          /\ ~Effected(TurnMessage(p, "assistant"))
          /\ inflight' = [inflight EXCEPT !.call[p] =
               IF sessionId \in DOMAIN sessions
               THEN Put([started EXCEPT !.pc = "loaded"], "obj", Cached)
               ELSE IF storage.configured THEN started
               ELSE Returned(sessionId, TRUE)]
          /\ UNCHANGED <<sessions, storage, nextId, calls, ret, req, turns, client>>

(***************************************************************************)
(* AgentOrchestrator.analyzeIntent (src/unnamed/part_005).                 *)
(* The text generated by the model is a sequence of tokens: prose words,   *)
(* braces, and the member list of a JSON object.                           *)
(***************************************************************************)
Word == [t |-> "word"]
LBrace == [t |-> "{"]
RBrace == [t |-> "}"]
Members(obj) == [t |-> "members", v |-> obj]

\* result.content.match(/\{[\s\S]*\}/): leftmost "{", then greedy to the last "}".
RegexMatches(text) ==
  \E i \in 1..Len(text), j \in 1..Len(text) : i < j /\ text[i] = LBrace /\ text[j] = RBrace

RegexMatch(text) ==
  LET i == CHOOSE a \in 1..Len(text) :
             /\ text[a] = LBrace
             /\ \A b \in 1..(a - 1) : text[b] # LBrace
      j == CHOOSE a \in 1..Len(text) :
             /\ text[a] = RBrace
             /\ \A b \in (a + 1)..Len(text) : text[b] # RBrace
  IN SubSeq(text, i, j)

\* JSON.parse succeeds on "{}" and on "{" members "}" only.
JsonParses(str) ==
  \/ str = <<LBrace, RBrace>>
  \/ Len(str) = 3 /\ str[1] = LBrace /\ str[2].t = "members" /\ str[3] = RBrace

JsonParse(str) == IF Len(str) = 2 THEN EmptyObject ELSE str[2].v

DefaultIntent ==
  [type |-> "general_question", requiresTools |-> FALSE,
   suggestedTools |-> <<>>, parameters |-> EmptyObject]

SearchKeywords ==
  {<<"s","e","a","r","c","h">>, <<"f","i","n","d">>, <<"s","h","o","w">>,
   <<"l","o","o","k","i","n","g"," ","f","o","r">>}

CartKeyword == <<"c","a","r","t">>

\* The catch branch: simple fallback intent detection.
FallbackIntentMutant(userMessage) ==
  LET lowerMessage == toLowerCase(userMessage)
  IN IF includes(lowerMessage, CartKeyword)
     THEN [type |-> "view_cart", requiresTools |-> TRUE,
           suggestedTools |-> <<"get_cart">>, parameters |-> EmptyObject]
     ELSE IF \E kw \in SearchKeywords : includes(lowerMessage, kw)
     THEN [type |-> "product_search", requiresTools |-> TRUE,
           suggestedTools |-> <<"search_products">>,
           parameters |-> [query |-> userMessage]]
     ELSE DefaultIntent

FallbackIntentNoTools(userMessage) ==
  LET lowerMessage == toLowerCase(userMessage)
  IN IF \E kw \in SearchKeywords : includes(lowerMessage, kw)
     THEN [type |-> "product_search", requiresTools |-> TRUE,
           suggestedTools |-> <<"search_products">>,
           parameters |-> [query |-> userMessage]]
     ELSE IF includes(lowerMessage, CartKeyword)
     THEN [type |-> "view_cart", requiresTools |-> FALSE,
           suggestedTools |-> <<"get_cart">>, parameters |-> EmptyObject]
     ELSE DefaultIntent

FallbackIntent(userMessage) ==
  LET lowerMessage == toLowerCase(userMessage)
  IN IF \E kw \in SearchKeywords : includes(lowerMessage, kw)
     THEN [type |-> "product_search", requiresTools |-> TRUE,
           suggestedTools |-> <<"search_products">>,
           parameters |-> [query |-> userMessage]]
     ELSE IF includes(lowerMessage, CartKeyword)
     THEN [type |-> "view_cart", requiresTools |-> TRUE,
           suggestedTools |-> <<"get_cart">>, parameters |-> EmptyObject]
     ELSE DefaultIntent

\* llm is the outcome of the classification generateCompletion call:
\* [threw |-> TRUE] or [threw |-> FALSE, content |-> text].
analyzeIntentMutant(userMessage, llm) ==
  IF llm.threw THEN FallbackIntent(userMessage)
  ELSE IF RegexMatches(llm.content) /\ JsonParses(RegexMatch(llm.content))
  THEN JsonParse(RegexMatch(llm.content))
  ELSE FallbackIntent(userMessage)

analyzeIntent(userMessage, llm) ==
  IF llm.threw THEN FallbackIntent(userMessage)
  ELSE IF RegexMatches(llm.content)
  THEN IF JsonParses(RegexMatch(llm.content))
       THEN JsonParse(RegexMatch(llm.content))
       ELSE FallbackIntent(userMessage)
  ELSE DefaultIntent

\* JavaScript truthiness of an optional boolean property.
Truthy(obj, field) == Has(obj, field) /\ obj[field] = TRUE

(***************************************************************************)
(* Outcomes of the classification call the model explores.                 *)
(***************************************************************************)
ParsedIntents ==
  { [type |-> "greeting", requiresTools |-> FALSE,
     suggestedTools |-> <<>>, parameters |-> EmptyObject],
    [type |-> "add_to_cart", requiresTools |-> TRUE,
     suggestedTools |-> <<"create_cart", "add_to_cart">>,
     parameters |-> [sku |-> "sku1"]],
    [type |-> "add_to_cart", requiresTools |-> TRUE,
     suggestedTools |-> <<"add_to_cart">>,
     parameters |-> [sku |-> "sku1", cartId |-> ClassifierCart]],
    [type |-> "product_search", requiresTools |-> TRUE],
    [type |-> "view_cart", requiresTools |-> FALSE,
     suggestedTools |-> <<"get_cart">>, parameters |-> EmptyObject],
    [type |-> "cart_management", requiresTools |-> TRUE,
     suggestedTools |-> <<>>, parameters |-> EmptyObject],
    [type |-> "view_cart", requiresTools |-> TRUE,
     suggestedTools |-> <<"delete_cart", "get_cart">>, parameters |-> EmptyObject],
    [type |-> "product_search", requiresTools |-> TRUE,
     suggestedTools |-> <<"search_products", "get_product_details">>] }

ClassifierTexts ==
  { <<Word, LBrace, Members(i), RBrace, Word>> : i \in ParsedIntents }
  \cup { <<Word>>, <<RBrace, Word, LBrace>>, <<LBrace, Word, RBrace>>,
         <<LBrace, RBrace>>,
         <<LBrace, RBrace, Word, LBrace, RBrace>> }

ClassifierOutcomes ==
  { [threw |-> TRUE] } \cup { [threw |-> FALSE, content |-> t] : t \in ClassifierTexts }

(***************************************************************************)
(* Built-in tools (src/commerce-agent/actions/tools/built-in).             *)
(***************************************************************************)
ToolNames ==
  <<"search_products", "get_product_details", "create_cart", "add_to_cart",
    "get_cart", "update_cart_item", "remove_cart_item">>

IsRegistered(toolName) == \E i \in 1..Len(ToolNames) : ToolNames[i] = toolName

BackendError == "Magento API Error"
OutOfStock == "The requested qty is not available"
UndefinedParameters == "Cannot read properties of undefined (reading 'query')"

\* What the Magento backend may answer to the request of a tool.
BackendOutcomes(toolName) ==
  IF toolName = "add_to_cart" THEN {"ok", "throw", "user_errors"}
  ELSE IF toolName = "get_product_details" THEN {"ok", "throw", "no_items"}
  ELSE {"ok", "throw"}

\* tool.execute(magentoClient, params, context) for the registered tools.
Execute(toolName, params, backend) ==
  IF backend = "throw" THEN [success |-> FALSE, error |-> BackendError]
  ELSE IF toolName = "add_to_cart" /\ backend = "user_errors"
  THEN [success |-> FALSE, error |-> OutOfStock]
  ELSE IF toolName = "get_product_details" /\ backend = "no_items"
  THEN [success |-> FALSE, error |-> "Product with SKU not found"]
  ELSE IF toolName = "create_cart"
  THEN [success |-> TRUE, data |-> [cartId |-> BackendCart],
        message |-> "Shopping cart created successfully"]
  ELSE IF toolName = "add_to_cart"
  THEN [success |-> TRUE, data |-> [kind |-> "cart"], message |-> "Added to cart"]
  ELSE IF toolName = "search_products"
  THEN [success |-> TRUE, data |-> [kind |-> "products"], message |-> "Found products"]
  ELSE IF toolName = "get_product_details"
  THEN [success |-> TRUE, data |-> [kind |-> "product"]]
  ELSE IF toolName = "get_cart"
  THEN [success |-> TRUE, data |-> [kind |-> "cart"]]
  ELSE IF toolName = "update_cart_item"
  THEN [success |-> TRUE, data |-> [kind |-> "cart"],
        message |-> "Cart item updated successfully"]
  ELSE [success |-> TRUE, data |-> [kind |-> "cart"], message |-> "Item removed from cart"]

\* inputSchema.required of each registered tool.
RequiredParameters(toolName) ==
  IF toolName = "search_products" THEN {"query"}
  ELSE IF toolName = "get_product_details" THEN {"sku"}
  ELSE IF toolName = "create_cart" THEN {}
  ELSE IF toolName = "add_to_cart" THEN {"sku", "cartId"}
  ELSE IF toolName = "get_cart" THEN {"cartId"}
  ELSE IF toolName = "update_cart_item" THEN {"cartId", "cartItemId", "quantity"}
  ELSE {"cartId", "cartItemId"}

\* The request tool.execute sends through magentoClient.query or mutate: the
\* parameters as they were received, and the customer token for the cart
\* tools only. position is the index of the tool in the dispatch loop.
BackendRequest(position, toolName, params, context) ==
  [position |-> position,
   toolName |-> toolName,
   variables |-> params,
   customerToken |-> IF toolName \in {"search_products", "get_product_details"}
                     THEN Null ELSE context.customerToken]

\* BuiltInTools.executeTool(toolName, params, context).
executeToolMutant(toolName, params, backend) ==
  Execute(toolName, params, backend)

executeTool(toolName, params, backend) ==
  IF ~IsRegistered(toolName)
  THEN [success |-> FALSE, error |-> "Unknown tool: " \o toolName]
  ELSE Execute(toolName, params, backend)

(***************************************************************************)
(* AgentOrchestrator.executeTools and response generation.                 *)
(***************************************************************************)
\* extractToolParameters throws when it reads intent.parameters.query of an
\* intent that has no parameters.
ExtractThrows(toolName, intent, context) ==
  /\ toolName = "search_products"
  /\ ~Has(intent, "parameters")

\* extractToolParameters: intent parameters, overridden by the context cart.
\* In the mutant the context cart only fills in a cartId the intent lacks.
extractToolParametersMutant(toolName, intent, context) ==
  LET spread == IF Has(intent, "parameters") THEN intent.parameters ELSE EmptyObject
      withCart == IF context.cartId # Null /\ ~Has(spread, "cartId")
                  THEN Put(spread, "cartId", context.cartId) ELSE spread
  IN IF toolName = "search_products" /\ ~Has(withCart, "query")
     THEN Put(withCart, "query", EmptyString)
     ELSE withCart

extractToolParameters(toolName, intent, context) ==
  LET spread == IF Has(intent, "parameters") THEN intent.parameters ELSE EmptyObject
      withCart == IF context.cartId # Null
                  THEN Put(spread, "cartId", context.cartId) ELSE spread
  IN IF toolName = "search_products" /\ ~Has(withCart, "query")
     THEN Put(withCart, "query", EmptyString)
     ELSE withCart

\* One entry of the results list executeTools collects.
ToolResult(toolName, result) == Put(result, "toolName", toolName)

\* One entry of the tool summary generateResponseWithTools builds.
ToolContextEntryMutant(r) ==
  IF r.success
  THEN [toolName |-> r.toolName, result |-> r.data]
  ELSE [toolName |-> r.toolName, error |-> "Tool failed"]

ToolContextEntry(r) ==
  IF r.success
  THEN [toolName |-> r.toolName, result |-> r.data]
  ELSE [toolName |-> r.toolName, error |-> r.error]

SystemMessage == [role |-> "system", content |-> <<"SystemPrompt">>]

RoleAndContent(history) ==
  [i \in 1..Len(history) |-> [role |-> history[i].role, content |-> history[i].content]]

\* A composition after tools that takes the window of the direct response.
generateResponseWithToolsWide(userMessage, toolResults, conversationHistory) ==
  <<SystemMessage>>
  \o RoleAndContent(Slice(conversationHistory, 0 - DirectHistoryWindow))
  \o << [role |-> "user",
         question |-> userMessage,
         toolContext |-> [i \in 1..Len(toolResults) |-> ToolContextEntry(toolResults[i])]] >>

generateResponseWithTools(userMessage, toolResults, conversationHistory) ==
  <<SystemMessage>>
  \o RoleAndContent(Slice(conversationHistory, 0 - ToolsHistoryWindow))
  \o << [role |-> "user",
         question |-> userMessage,
         toolContext |-> [i \in 1..Len(toolResults) |-> ToolContextEntry(toolResults[i])]] >>

generateDirectResponse(userMessage, conversationHistory) ==
  <<SystemMessage>>
  \o RoleAndContent(Slice(conversationHistory, 0 - DirectHistoryWindow))
  \o << [role |-> "user", content |-> userMessage] >>

Reply == <<"R","e","p","l","y">>

(***************************************************************************)
(* main (src/commerce-agent/actions/chat/index.js): one request.           *)
(***************************************************************************)
AbsentMessage == <<"undefined">>

\* A message that is truthy but not a string (it has no substring method).
NumberMessage == <<"number">>

\* The requests explored are those of anonymous shoppers.
RequestParams ==
  [message : UserMessages \cup {EmptyString, AbsentMessage, NumberMessage},
   sessionId : SessionIds \cup {BogusSessionId, NoSessionId},
   customerToken : {Null},
   cartId : {CallerCart, Null}]

GivenRequest(p) ==
  [k \in {f \in DOMAIN p : IF f = "message" THEN p[f] # AbsentMessage
                           ELSE Supplied(p, f)} |-> p[k]]

IdleRequest == [pc |-> "idle"]

\* The caller before it has received a 200 response.
NoResponse == [sessionId |-> NoSessionId]

Respond(statusCode, body) ==
  [pc |-> "done", statusCode |-> statusCode, body |-> body]

\* Lines 117-127: the body of an error response.
ErrorBodyMutant(text) == [success |-> FALSE]

ErrorBody(text) == [success |-> FALSE, error |-> text]

NotIterable == "intent.suggestedTools is not iterable"
CompletionFailed == "LLM API failed"
SessionNotFound == "Session not found"
NotAFunction == "message.substring is not a function"
MessageRequired == "Parameter message is required"

\* Line 24: if (!message).
MessageMissingMutant(params) == ~Has(params, "message")

MessageMissing(params) ==
  ~Has(params, "message") \/ params.message = EmptyString

\* Lines 16-39: the request after validation and the log line at 34-39.
Validated(params) ==
  IF MessageMissing(params)
  THEN Put(Respond(400, ErrorBody(MessageRequired)), "params", params)
  ELSE IF params.message = NumberMessage
  THEN Put(Respond(500, ErrorBody(NotAFunction)), "params", params)
  ELSE [pc |-> "session", params |-> params]

\* Lines 13-39: parameter extraction and validation.
ReceiveRequest ==
  \E p \in RequestParams :
    LET params == GivenRequest(p)
    IN /\ req.pc \in {"idle", "done"}
       /\ turns < MaxTurns
       /\ turns' = turns + 1
       /\ req' = Validated(params)
       /\ UNCHANGED <<storeVars, client, inflight>>

\* A chat widget: it sends one of two messages and hands back the sessionId
\* of the last 200 response it received (part_006:64-78).
ChatMessages == {MsgShowRedShirts, MsgShowFirst}

ReceiveChat ==
  \E m \in ChatMessages :
    LET params == IF client.sessionId = NoSessionId
                  THEN [message |-> m]
                  ELSE [message |-> m, sessionId |-> client.sessionId]
    IN /\ req.pc \in {"idle", "done"}
       /\ turns < MaxTurns + 1
       /\ turns' = turns + 1
       /\ req' = Validated(params)
       /\ UNCHANGED <<storeVars, client, inflight>>

\* The requests of a logged-in shopper, with or without a cart of their own.
ShopperParams ==
  [message : {MsgShowRedShirts, MsgMyCart},
   customerToken : {"tokA"},
   cartId : {CallerCart, Null}]

ReceiveShopper ==
  \E p \in ShopperParams :
    LET params == GivenRequest(p)
    IN /\ req.pc \in {"idle", "done"}
       /\ turns < MaxTurns
       /\ turns' = turns + 1
       /\ req' = Validated(params)
       /\ UNCHANGED <<storeVars, client, inflight>>

\* A follow-up request of the caller who holds the sessionId of a session.
ReceiveFollowUp ==
  \E m \in {MsgShowRedShirts, MsgHello} :
    /\ req.pc \in {"idle", "done"}
    /\ turns < MaxTurns
    /\ turns' = turns + 1
    /\ req' = Validated([message |-> m, sessionId |-> client.sessionId])
    /\ UNCHANGED <<storeVars, client, inflight>>

\* A request of a caller who holds the sessionId of a live session, one who
\* sends an id that no session has, and one who sends none.
ReceiveReturning ==
  \E m \in {MsgShowRedShirts, MsgHello},
     id \in DOMAIN sessions \cup {BogusSessionId, NoSessionId} :
    /\ req.pc \in {"idle", "done"}
    /\ turns < MaxTurns
    /\ turns' = turns + 1
    /\ req' = Validated(GivenRequest([message |-> m, sessionId |-> id]))
    /\ UNCHANGED <<storeVars, client, inflight>>

\* A request for an existing session that supplies a customer token and a
\* cart of its own, or neither.
MemberParams ==
  [message : {MsgShowRedShirts, MsgMyCart},
   sessionId : {1, 2},
   customerToken : CustomerTokens \cup {Null},
   cartId : {CallerCart, Null}]

ReceiveMember ==
  \E p \in MemberParams :
    /\ req.pc \in {"idle", "done"}
    /\ turns < MaxTurns
    /\ turns' = turns + 1
    /\ req' = Validated(GivenRequest(p))
    /\ UNCHANGED <<storeVars, client, inflight>>

\* In this mutant main stores the user message as soon as it has the session.
ResolveSessionSavesFirst ==
  /\ req.pc = "session"
  /\ LET out == getOrCreateSession(sessions, storage, nextId, req.params, TRUE, TRUE)
         saved == addMessage(out.cache, out.store, out.sessionId, "user",
                             req.params.message, EmptyObject, TRUE, TRUE)
     IN /\ sessions' = saved.cache
        /\ storage' = saved.store
        /\ nextId' = out.nextId
        /\ req' = [pc |-> "agent",
                   params |-> req.params,
                   sessionId |-> out.sessionId,
                   conversationHistory |->
                     getHistory(out.cache, out.store, out.sessionId,
                                DefaultHistoryLimit, TRUE)]
  /\ UNCHANGED <<calls, ret, turns, client, inflight>>

\* Lines 41-55: getOrCreateSession, then getHistory.
ResolveSession ==
  /\ req.pc = "session"
  /\ LET out == getOrCreateSession(sessions, storage, nextId, req.params, TRUE, TRUE)
     IN /\ sessions' = out.cache
        /\ storage' = out.store
        /\ nextId' = out.nextId
        /\ req' = [pc |-> "agent",
                   params |-> req.params,
                   sessionId |-> out.sessionId,
                   conversationHistory |->
                     getHistory(out.cache, out.store, out.sessionId,
                                DefaultHistoryLimit, TRUE)]
  /\ UNCHANGED <<calls, ret, turns, client, inflight>>

(***************************************************************************)
(* Configuration (llm-provider.js, part_003, magento-client.js).           *)
(***************************************************************************)
DefaultOllamaUrl == "http://localhost:11434"
MagentoUrl == "https://shop.example/graphql"

\* The deployment settings (action parameters merged with process.env) the
\* model explores: each provider with and without its credential, an
\* unsupported provider, an unknown tool mode and a missing Magento URL.
DeploymentEnvs ==
  { [MAGENTO_GRAPHQL_URL |-> MagentoUrl],
    [LLM_PROVIDER |-> "openai", OPENAI_API_KEY |-> "key", MAGENTO_GRAPHQL_URL |-> MagentoUrl],
    [LLM_PROVIDER |-> "openai", MAGENTO_GRAPHQL_URL |-> MagentoUrl],
    [LLM_PROVIDER |-> "claude", CLAUDE_API_KEY |-> "key", MAGENTO_GRAPHQL_URL |-> MagentoUrl],
    [LLM_PROVIDER |-> "claude", MAGENTO_GRAPHQL_URL |-> MagentoUrl],
    [LLM_PROVIDER |-> "gemini", GOOGLE_API_KEY |-> "key", MAGENTO_GRAPHQL_URL |-> MagentoUrl],
    [LLM_PROVIDER |-> "gemini", OPENAI_API_KEY |-> "key", MAGENTO_GRAPHQL_URL |-> MagentoUrl],
    [LLM_PROVIDER |-> "mistral", OPENAI_API_KEY |-> "key", MAGENTO_GRAPHQL_URL |-> MagentoUrl],
    [LLM_PROVIDER |-> "ollama", OLLAMA_BASE_URL |-> "http://ollama:11434"],
    [TOOL_MODE |-> "bogus", MAGENTO_GRAPHQL_URL |-> MagentoUrl],
    [LLM_PROVIDER |-> "claude", TOOL_MODE |-> "bogus"] }

\* createLLMProvider: the provider configuration built from the settings.
ProviderConfig(env) ==
  LET base == [provider |-> IF Has(env, "LLM_PROVIDER") THEN env.LLM_PROVIDER
                            ELSE "ollama",
               ollamaBaseUrl |-> IF Has(env, "OLLAMA_BASE_URL")
                                 THEN env.OLLAMA_BASE_URL ELSE DefaultOllamaUrl]
      openai == IF Has(env, "OPENAI_API_KEY")
                THEN Put(base, "openaiApiKey", env.OPENAI_API_KEY) ELSE base
      claude == IF Has(env, "CLAUDE_API_KEY")
                THEN Put(openai, "claudeApiKey", env.CLAUDE_API_KEY) ELSE openai
  IN IF Has(env, "GOOGLE_API_KEY")
     THEN Put(claude, "geminiApiKey", env.GOOGLE_API_KEY) ELSE claude

\* The configurations an LLMProvider is constructed with: those that
\* createLLMProvider builds, and those a caller of the exported class passes.
ProviderConfigs ==
  { ProviderConfig(env) : env \in DeploymentEnvs }
  \cup { EmptyObject, [provider |-> "ollama"], [ollamaBaseUrl |-> DefaultOllamaUrl],
         [provider |-> "gemini", geminiApiKey |-> "key"],
         [provider |-> "claude", ollamaBaseUrl |-> DefaultOllamaUrl] }

\* LLMProvider constructor, line 9: config.provider || 'ollama'.
Provider(config) == IF Has(config, "provider") THEN config.provider ELSE "ollama"

NoError == "none"

\* validateConfig: the error the constructor throws, or NoError.
validateConfigMutant(config) ==
  LET provider == Provider(config)
  IN IF provider = "ollama"
     THEN IF Has(config, "ollamaBaseUrl") THEN NoError
          ELSE "OLLAMA_BASE_URL is required for Ollama provider"
     ELSE IF provider = "openai"
     THEN IF Has(config, "openaiApiKey") THEN NoError
          ELSE "OPENAI_API_KEY is required for OpenAI provider"
     ELSE IF provider = "claude"
     THEN IF Has(config, "claudeApiKey") THEN NoError
          ELSE "CLAUDE_API_KEY is required for Claude provider"
     ELSE IF provider = "gemini"
     THEN NoError
     ELSE "Unsupported LLM provider: " \o provider

validateConfig(config) ==
  LET provider == Provider(config)
  IN IF provider = "ollama"
     THEN IF Has(config, "ollamaBaseUrl") THEN NoError
          ELSE "OLLAMA_BASE_URL is required for Ollama provider"
     ELSE IF provider = "openai"
     THEN IF Has(config, "openaiApiKey") THEN NoError
          ELSE "OPENAI_API_KEY is required for OpenAI provider"
     ELSE IF provider = "claude"
     THEN IF Has(config, "claudeApiKey") THEN NoError
          ELSE "CLAUDE_API_KEY is required for Claude provider"
     ELSE IF provider = "gemini"
     THEN IF Has(config, "geminiApiKey") THEN NoError
          ELSE "GOOGLE_API_KEY is required for Gemini provider"
     ELSE "Unsupported LLM provider: " \o provider

\* ToolAdapter.initialize: the error it throws, or NoError. With the
\* built-in tools it constructs the MagentoClient, whose constructor calls
\* detectMode (which dereferences the URL) before it checks the URL.
initialize(env) ==
  LET mode == IF Has(env, "TOOL_MODE") THEN env.TOOL_MODE ELSE "built-in"
  IN IF mode # "built-in" THEN "Unknown tool mode: " \o mode
     ELSE IF ~Has(env, "MAGENTO_GRAPHQL_URL")
     THEN "Cannot read properties of undefined (reading 'toLowerCase')"
     ELSE NoError

\* Lines 57-76: new AgentOrchestrator(config) and agent.initialize().
CreateAgent ==
  \E env \in DeploymentEnvs :
    LET config == ProviderConfig(env)
        error == IF validateConfig(config) # NoError THEN validateConfig(config)
                 ELSE initialize(env)
    IN /\ req.pc = "agent"
       /\ req' = IF error = NoError
                 THEN Put(Put([req EXCEPT !.pc = "classify"], "env", env),
                          "config", config)
                 ELSE Put(Put(Respond(500, ErrorBody(error)), "env", env),
                          "config", config)
       /\ UNCHANGED <<storeVars, turns, client, inflight>>

Context(r) ==
  [customerToken |-> sessions[r.sessionId].customerToken,
   cartId |-> sessions[r.sessionId].cartId]

\* processMessage: analyzeIntent, then the branch on intent.requiresTools;
\* executeTools throws at once when intent.suggestedTools is not iterable.
Classify ==
  \E llm \in ClassifierOutcomes :
    LET intent == analyzeIntent(req.params.message, llm)
        started == [pc |-> "compose",
                    params |-> req.params,
                    sessionId |-> req.sessionId,
                    conversationHistory |-> req.conversationHistory,
                    context |-> Context(req),
                    classification |-> llm,
                    intent |-> intent,
                    withTools |-> Truthy(intent, "requiresTools"),
                    toolResults |-> <<>>,
                    invocations |-> <<>>,
                    backendCalls |-> <<>>,
                    llmCalls |-> 1]
    IN /\ req.pc = "classify"
       /\ req' = IF ~Truthy(intent, "requiresTools") THEN started
                 ELSE IF ~Has(intent, "suggestedTools")
                 THEN Put(Respond(500, ErrorBody(NotIterable)),
                          "classification", llm)
                 ELSE IF intent.suggestedTools = <<>> THEN started
                 ELSE [started EXCEPT !.pc = "tools"]
       /\ UNCHANGED <<storeVars, turns, client, inflight>>

\* executeTools: a result is pushed and the loop goes on to the next tool.
AfterResultMutant(r, result) ==
  LET results == Append(r.toolResults, result)
  IN [r EXCEPT !.toolResults = results,
               !.pc = IF Len(results) < Len(r.intent.suggestedTools) /\ result.success
                      THEN "tools" ELSE "compose"]

AfterResult(r, result) ==
  LET results == Append(r.toolResults, result)
  IN [r EXCEPT !.toolResults = results,
               !.pc = IF Len(results) < Len(r.intent.suggestedTools)
                      THEN "tools" ELSE "compose"]

\* executeTools, loop body up to the await: parameters are extracted and the
\* tool adapter is called; an exception is recorded as a failed result.
InvokeTool ==
  /\ req.pc = "tools"
  /\ LET toolName == req.intent.suggestedTools[Len(req.toolResults) + 1]
     IN req' = IF ExtractThrows(toolName, req.intent, req.context)
               THEN AfterResult(req, [toolName |-> toolName, success |-> FALSE,
                                      error |-> UndefinedParameters])
               ELSE [req EXCEPT
                       !.pc = "tool_wait",
                       !.invocations = Append(@,
                          [position |-> Len(req.toolResults) + 1,
                           toolName |-> toolName,
                           params |-> extractToolParameters(toolName, req.intent,
                                                            req.context),
                           context |-> req.context])]
  /\ UNCHANGED <<storeVars, turns, client, inflight>>

\* The request log after BuiltInTools.executeTool has served a call: a
\* registered tool sends one request to Magento, an unknown tool sends none.
Requested(r, call) ==
  IF IsRegistered(call.toolName)
  THEN [r EXCEPT !.backendCalls =
          Append(@, BackendRequest(call.position, call.toolName, call.params,
                                   call.context))]
  ELSE r

\* executeTools, after the await: the result of the pending call is pushed.
ToolReturns ==
  /\ req.pc = "tool_wait"
  /\ LET call == req.invocations[Len(req.invocations)]
     IN \E backend \in BackendOutcomes(call.toolName) :
          req' = AfterResult(Requested(req, call),
                   ToolResult(call.toolName,
                              executeTool(call.toolName, call.params, backend)))
  /\ UNCHANGED <<storeVars, turns, client, inflight>>

toolsUsed(r) == [i \in 1..Len(r.toolResults) |-> r.toolResults[i].toolName]

\* result.intent read from a property the intent does not have.
IntentTypeMutant(intent) == "undefined"

IntentType(intent) == IF Has(intent, "type") THEN intent.type ELSE "undefined"

\* processMessage after the composition call: the reply on success; on a
\* gateway failure the error is rethrown and main answers 500.
ComposedMutant(r, messages, llmOk) ==
  IF llmOk
  THEN Put(Put(Put([r EXCEPT !.pc = "save_user", !.llmCalls = @ + 1],
                   "messages", messages),
               "response", Reply), "composition", "ok")
  ELSE Put(Put(Put([r EXCEPT !.pc = "save_user", !.llmCalls = @ + 1],
                   "messages", messages),
               "response", <<"S","o","r","r","y">>), "composition", "failed")

\* A composition that is tried again after a gateway failure.
ComposedRetries(r, messages, llmOk) ==
  IF llmOk
  THEN Put(Put(Put([r EXCEPT !.pc = "save_user", !.llmCalls = @ + 1],
                   "messages", messages),
               "response", Reply), "composition", "ok")
  ELSE [r EXCEPT !.llmCalls = @ + 1]

Composed(r, messages, llmOk) ==
  IF llmOk
  THEN Put(Put(Put([r EXCEPT !.pc = "save_user", !.llmCalls = @ + 1],
                   "messages", messages),
               "response", Reply), "composition", "ok")
  ELSE Put(Put(Put(Put(Respond(500, ErrorBody(CompletionFailed)),
                       "toolResults", r.toolResults),
                   "classification", r.classification), "composition", "failed"),
           "llmCalls", r.llmCalls + 1)

\* generateResponseWithTools / generateDirectResponse: the composition call.
Compose ==
  \E llmOk \in BOOLEAN :
    LET messages == IF req.withTools
                    THEN generateResponseWithTools(req.params.message, req.toolResults,
                                                   req.conversationHistory)
                    ELSE generateDirectResponse(req.params.message,
                                                req.conversationHistory)
    IN /\ req.pc = "compose"
       /\ req' = Composed(req, messages, llmOk)
       /\ UNCHANGED <<storeVars, turns, client, inflight>>

\* Line 89: addMessage(sessionId, 'user', message).
SaveUserMessage ==
  /\ req.pc = "save_user"
  /\ IF Resolves(sessions, storage, req.sessionId, TRUE)
     THEN LET out == addMessage(sessions, storage, req.sessionId, "user",
                                req.params.message, EmptyObject, TRUE, TRUE)
          IN /\ sessions' = out.cache
             /\ storage' = out.store
             /\ req' = [req EXCEPT !.pc = "save_assistant"]
     ELSE /\ req' = Put(Put(Put(Respond(500, ErrorBody(SessionNotFound)),
                                 "toolResults", req.toolResults),
                             "classification", req.classification),
                         "response", req.response)
          /\ UNCHANGED <<sessions, storage>>
  /\ UNCHANGED <<nextId, calls, ret, turns, client, inflight>>

\* Lines 90-115: addMessage(sessionId, 'assistant', ...) and the 200 response.
SaveAssistantMessage ==
  /\ req.pc = "save_assistant"
  /\ IF Resolves(sessions, storage, req.sessionId, TRUE)
     THEN LET out == addMessage(sessions, storage, req.sessionId, "assistant",
                                req.response,
                                [toolsUsed |-> toolsUsed(req),
                                 intent |-> IntentType(req.intent)],
                                TRUE, TRUE)
              session == out.cache[req.sessionId]
          IN /\ sessions' = out.cache
             /\ storage' = out.store
             /\ req' = Put(Put([req EXCEPT !.pc = "done"], "statusCode", 200),
                           "body",
                           [success |-> TRUE,
                            response |-> req.response,
                            sessionId |-> session.sessionId,
                            userType |-> session.userType,
                            toolsUsed |-> toolsUsed(req),
                            intent |-> IntentType(req.intent),
                            cartId |-> session.cartId])
             /\ client' = [sessionId |-> session.sessionId,
                           message |-> req.params.message,
                           response |-> req.response]
     ELSE /\ req' = Put(Put(Put(Respond(500, ErrorBody(SessionNotFound)),
                                 "toolResults", req.toolResults),
                             "classification", req.classification),
                         "response", req.response)
          /\ UNCHANGED <<sessions, storage, client>>
  /\ UNCHANGED <<nextId, calls, ret, turns, inflight>>

(***************************************************************************)
(* SessionManager.cleanupOldSessions. Time is counted in hours.            *)
(***************************************************************************)
DefaultMaxAgeHours == 24

\* Date.now() at the time of the cleanup.
Now == 100

\* A guest session whose last saveSession was the given number of hours ago.
AgedSession(id, hours) ==
  Put(NewSession(id, EmptyObject), "metadata", [lastActivity |-> Now - hours])

\* Lines 222-229: the loop over the entries of the cache; a session whose
\* lastActivity is before the cutoff is deleted with deleteSession.
RECURSIVE CleanupFrom(_, _, _, _, _)
CleanupFrom(ids, cache, store, cutoffTime, deleteOk) ==
  IF ids = {} THEN [cache |-> cache, store |-> store]
  ELSE LET sessionId == CHOOSE i \in ids : \A j \in ids : i <= j
           out == IF cache[sessionId].metadata.lastActivity < cutoffTime
                  THEN deleteSession(cache, store, sessionId, deleteOk)
                  ELSE [cache |-> cache, store |-> store]
       IN CleanupFrom(ids \ {sessionId}, out.cache, out.store, cutoffTime, deleteOk)

cleanupOldSessions(cache, store, maxAgeHours, deleteOk) ==
  CleanupFrom(DOMAIN cache, cache, store, Now - maxAgeHours, deleteOk)

CallCleanupOldSessions ==
  \E maxAgeHours \in {DefaultMaxAgeHours, DefaultMaxAgeHours + 1}, deleteOk \in BOOLEAN :
    LET out == cleanupOldSessions(sessions, storage, maxAgeHours, deleteOk)
    IN /\ Budget
       /\ (storage.configured \/ deleteOk)
       /\ sessions' = out.cache
       /\ storage' = out.store
       /\ ret' = [op |-> "cleanupOldSessions", threw |-> FALSE,
                  cutoffTime |-> Now - maxAgeHours,
                  storageError |-> /\ storage.configured
                                   /\ ~deleteOk
                                   /\ out.cache # sessions]
       /\ UNCHANGED <<nextId, req, turns, client, inflight>>

(***************************************************************************)
(* LLMProvider (llm-provider.js): construction and generateCompletion.     *)
(***************************************************************************)
SystemContents == {<<"S1">>, <<"S2">>}
PlainContents == {<<"hi">>}

\* The messages a caller hands to generateCompletion.
GatewayMessages ==
  [role : {"system"}, content : SystemContents]
  \cup [role : {"user", "assistant"}, content : PlainContents]

MessageLists ==
  UNION { [1..n -> GatewayMessages] : n \in 1..MaxMessages }

\* generateGemini, the loop of lines 219-234 over the first n messages.
RECURSIVE GeminiContents(_, _)
GeminiContents(messages, n) ==
  IF n = 0 THEN <<>>
  ELSE LET geminiContents == GeminiContents(messages, n - 1)
           msg == messages[n]
       IN IF msg.role = "system"
          THEN IF Len(geminiContents) = 0
               THEN Append(geminiContents,
                           [role |-> "user",
                            parts |-> << [text |-> msg.content \o <<"\n\n">>] >>])
               ELSE geminiContents
          ELSE Append(geminiContents,
                      [role |-> IF msg.role = "assistant" THEN "model" ELSE "user",
                       parts |-> << [text |-> msg.content] >>])

generateGemini(messages) ==
  [contents |-> GeminiContents(messages, Len(messages))]

\* generateClaude, lines 158-170: systemMessage after the first n messages.
RECURSIVE ClaudeSystem(_, _)
ClaudeSystem(messages, n) ==
  IF n = 0 THEN EmptyString
  ELSE IF messages[n].role = "system" THEN messages[n].content
  ELSE ClaudeSystem(messages, n - 1)

generateClaude(messages) ==
  LET plain == SelectSeq(messages, LAMBDA msg : msg.role # "system")
      claudeMessages ==
        [i \in 1..Len(plain) |->
           [role |-> IF plain[i].role = "assistant" THEN "assistant" ELSE "user",
            content |-> plain[i].content]]
      systemMessage == ClaudeSystem(messages, Len(messages))
  IN IF systemMessage # EmptyString
     THEN [messages |-> claudeMessages, system |-> systemMessage]
     ELSE [messages |-> claudeMessages]

\* The payload of the single axios.post each generate function makes.
Payload(provider, messages) ==
  IF provider = "claude" THEN generateClaude(messages)
  ELSE IF provider = "gemini" THEN generateGemini(messages)
  ELSE [messages |-> messages]

\* new LLMProvider(config).
Construct ==
  /\ req.pc = "new"
  /\ req' = IF validateConfig(req.config) = NoError
            THEN Put([req EXCEPT !.pc = "ready"], "provider", Provider(req.config))
            ELSE Put([req EXCEPT !.pc = "threw"], "error", validateConfig(req.config))
  /\ UNCHANGED <<storeVars, turns, client, inflight>>

\* generateCompletion(messages) up to the request it posts.
GenerateCompletion ==
  /\ req.pc = "ready"
  /\ req' = Put([req EXCEPT !.pc = "sent"], "payload",
                Payload(req.provider, req.messages))
  /\ UNCHANGED <<storeVars, turns, client, inflight>>

(***************************************************************************)
(* Specifications.                                                         *)
(***************************************************************************)
InitStore ==
  /\ sessions = EmptyObject
  /\ storage = NoStorage
  /\ nextId = 1
  /\ calls = 0
  /\ ret = [op |-> "none", threw |-> FALSE, storageError |-> FALSE]
  /\ req = IdleRequest
  /\ turns = 0
  /\ client = NoResponse
  /\ inflight = NoCalls

\* The program: main() serving one request after another.
Init == InitStore

Next ==
  \/ ReceiveRequest
  \/ ResolveSession
  \/ CreateAgent
  \/ Classify
  \/ InvokeTool
  \/ ToolReturns
  \/ Compose
  \/ SaveUserMessage
  \/ SaveAssistantMessage

Spec == Init /\ [][Next]_vars

\* main() serving the consecutive requests of one chat widget.
NextChat ==
  \/ ReceiveChat
  \/ ResolveSession
  \/ CreateAgent
  \/ Classify
  \/ InvokeTool
  \/ ToolReturns
  \/ Compose
  \/ SaveUserMessage
  \/ SaveAssistantMessage

SpecChat == Init /\ [][NextChat]_vars

\* main() serving the requests of logged-in shoppers.
NextShopper ==
  \/ ReceiveShopper
  \/ ResolveSession
  \/ CreateAgent
  \/ Classify
  \/ InvokeTool
  \/ ToolReturns
  \/ Compose
  \/ SaveUserMessage
  \/ SaveAssistantMessage

SpecShopper == Init /\ [][NextShopper]_vars


\* The SessionManager driven directly by an arbitrary client, from an empty
\* store and from a store whose one session already holds a long history.
OldMessage(i) ==
  [role |-> IF i % 2 = 1 THEN "user" ELSE "assistant",
   content |-> <<DigitChars[(i \div 10) + 1], DigitChars[(i % 10) + 1]>>]

OldHistory(n) == [i \in 1..n |-> OldMessage(i)]

InitHistory ==
  /\ \E n \in (HistoryLimit - 2)..HistoryLimit :
       sessions = [k \in {1} |->
                    [NewSession(1, EmptyObject) EXCEPT !.conversationHistory = OldHistory(n)]]
  /\ storage = NoStorage
  /\ nextId = 2
  /\ calls = 0
  /\ ret = [op |-> "none", threw |-> FALSE, storageError |-> FALSE]
  /\ req = IdleRequest
  /\ turns = 0
  /\ client = NoResponse
  /\ inflight = NoCalls

NextStore ==
  \/ CallGetOrCreateSession
  \/ CallAddMessage
  \/ CallUpdateCartId
  \/ CallClearHistory
  \/ CallDeleteSession

SpecStore == InitStore /\ [][NextStore]_vars

NextHistory ==
  \/ CallAddMessage
  \/ CallClearHistory
  \/ CallDeleteSession

SpecHistory == InitHistory /\ [][NextHistory]_vars

\* main() serving a caller whose session already has a history of about
\* the length of the composition windows.
InitWindow ==
  /\ \E n \in (ToolsHistoryWindow - 1)..(DirectHistoryWindow + 1) :
       sessions = [k \in {1} |->
                    [NewSession(1, EmptyObject) EXCEPT !.conversationHistory = OldHistory(n)]]
  /\ storage = NoStorage
  /\ nextId = 2
  /\ calls = 0
  /\ ret = [op |-> "none", threw |-> FALSE, storageError |-> FALSE]
  /\ req = IdleRequest
  /\ turns = 0
  /\ client = [sessionId |-> 1]
  /\ inflight = NoCalls

NextWindow ==
  \/ ReceiveFollowUp
  \/ ResolveSession
  \/ CreateAgent
  \/ Classify
  \/ InvokeTool
  \/ ToolReturns
  \/ Compose
  \/ SaveUserMessage
  \/ SaveAssistantMessage

SpecWindow == InitWindow /\ [][NextWindow]_vars

\* main() serving requests for two existing sessions: that of a shopper who
\* logged in with "tokA" and that of a guest. Neither has a cart; of the
\* metadata, createdAt is kept.
CreatedAt == 7

ExistingSession(id, params) ==
  Put([NewSession(id, params) EXCEPT !.conversationHistory = OldHistory(2)],
      "metadata", [createdAt |-> CreatedAt])

InitMember ==
  /\ sessions = [k \in {1, 2} |->
                   IF k = 1 THEN ExistingSession(k, [customerToken |-> "tokA"])
                   ELSE ExistingSession(k, EmptyObject)]
  /\ storage = NoStorage
  /\ nextId = 3
  /\ calls = 0
  /\ ret = [op |-> "none", threw |-> FALSE, storageError |-> FALSE]
  /\ req = IdleRequest
  /\ turns = 0
  /\ client = NoResponse
  /\ inflight = NoCalls

NextMember ==
  \/ ReceiveMember
  \/ ResolveSession
  \/ CreateAgent
  \/ Classify
  \/ InvokeTool
  \/ ToolReturns
  \/ Compose
  \/ SaveUserMessage
  \/ SaveAssistantMessage

SpecMember == InitMember /\ [][NextMember]_vars

\* main() serving callers with and without the id of a live session.
NextReturning ==
  \/ ReceiveReturning
  \/ ResolveSession
  \/ CreateAgent
  \/ Classify
  \/ InvokeTool
  \/ ToolReturns
  \/ Compose
  \/ SaveUserMessage
  \/ SaveAssistantMessage

SpecReturning == InitWindow /\ [][NextReturning]_vars

\* The SessionManager with a backing store (a store that keeps serialised
\* copies, such as the Redis named at part_004:11), driven by an arbitrary
\* client. The process starts with an empty cache; the store is empty or
\* holds a session written by an earlier process.
StoredSession ==
  [NewSession(1, EmptyObject) EXCEPT !.conversationHistory = OldHistory(2)]

InitDurable ==
  /\ sessions = EmptyObject
  /\ \/ storage = [configured |-> TRUE, data |-> EmptyObject] /\ nextId = 1
     \/ storage = [configured |-> TRUE, data |-> [k \in {1} |-> StoredSession]]
        /\ nextId = 2
  /\ calls = 0
  /\ ret = [op |-> "none", threw |-> FALSE, storageError |-> FALSE]
  /\ req = IdleRequest
  /\ turns = 0
  /\ client = NoResponse
  /\ inflight = NoCalls

NextDurable ==
  \/ CallGetOrCreateSession
  \/ CallAddMessage
  \/ CallGetHistory
  \/ CallUpdateCartId
  \/ CallClearHistory
  \/ CallDeleteSession

SpecDurable == InitDurable /\ [][NextDurable]_vars

\* Two clients appending to the session the backing store holds; the cache
\* holds the session already, or not yet.
InitConcurrent ==
  /\ sessions \in {EmptyObject, [k \in {ConcurrentSession} |-> StoredSession]}
  /\ storage = [configured |-> TRUE,
                data |-> [k \in {ConcurrentSession} |-> StoredSession]]
  /\ nextId = 2
  /\ calls = 0
  /\ ret = [op |-> "none", threw |-> FALSE, storageError |-> FALSE]
  /\ req = IdleRequest
  /\ turns = 0
  /\ client = NoResponse
  /\ inflight = NoCalls

NextConcurrent ==
  \E p \in Procs :
    \/ BeginAddMessage(p)
    \/ StorageGetReturns(p)
    \/ PushMessage(p)
    \/ StorageSetReturns(p)

SpecConcurrent == InitConcurrent /\ [][NextConcurrent]_vars

\* Two turns that have resolved their sessions (both are cached) and composed
\* their replies, on a session manager with a backing store: every
\* storage.set is an await on I/O during which the other turn can run.
InitTurns ==
  /\ sessions = [k \in {ConcurrentSession, 2} |->
                   IF k = ConcurrentSession THEN StoredSession
                   ELSE NewSession(k, EmptyObject)]
  /\ storage = [configured |-> TRUE, data |-> sessions]
  /\ nextId = 3
  /\ calls = 0
  /\ ret = [op |-> "none", threw |-> FALSE, storageError |-> FALSE]
  /\ req = IdleRequest
  /\ turns = 0
  /\ client = NoResponse
  /\ inflight = NoCalls

NextTurns ==
  \E p \in Procs :
    \/ BeginTurnMessage(p)
    \/ PushMessage(p)
    \/ StorageSetReturns(p)

SpecTurns == InitTurns /\ [][NextTurns]_vars

\* The ages, in hours, of the sessions a cleanup finds: around the default
\* threshold.
Ages == (DefaultMaxAgeHours - 1)..(DefaultMaxAgeHours + 2)

\* Where a session is kept when the cleanup starts.
Placements == {"nowhere", "cache", "store", "both"}

\* A SessionManager, with or without a backing store, holding sessions of
\* several ages; a session can be in the cache, in the store (it was saved
\* by an earlier process and not loaded since) or in both.
InitCleanup ==
  \E configured \in BOOLEAN,
     place \in [1..MaxSessions -> Placements],
     age \in [1..MaxSessions -> Ages] :
    /\ \A id \in 1..MaxSessions :
         /\ place[id] \in {"store", "both"} => configured
         /\ place[id] = "nowhere" => age[id] = DefaultMaxAgeHours
    /\ sessions = [id \in {k \in 1..MaxSessions : place[k] \in {"cache", "both"}}
                     |-> AgedSession(id, age[id])]
    /\ storage = [configured |-> configured,
                  data |-> [id \in {k \in 1..MaxSessions : place[k] \in {"store", "both"}}
                              |-> AgedSession(id, age[id])]]
    /\ nextId = MaxSessions + 1
    /\ calls = 0
    /\ ret = [op |-> "none", threw |-> FALSE, storageError |-> FALSE]
    /\ req = IdleRequest
    /\ turns = 0
    /\ client = NoResponse
    /\ inflight = NoCalls

NextCleanup == CallCleanupOldSessions

SpecCleanup == InitCleanup /\ [][NextCleanup]_vars

\* An LLMProvider constructed with any configuration and asked for one
\* completion of any message list.
InitGateway ==
  /\ sessions = EmptyObject
  /\ storage = NoStorage
  /\ nextId = 1
  /\ calls = 0
  /\ ret = [op |-> "none", threw |-> FALSE, storageError |-> FALSE]
  /\ req \in [pc : {"new"}, config : ProviderConfigs, messages : MessageLists]
  /\ turns = 0
  /\ client = NoResponse
  /\ inflight = NoCalls

NextGateway ==
  \/ Construct
  \/ GenerateCompletion

SpecGateway == InitGateway /\ [][NextGateway]_vars

(***************************************************************************)
(* Properties.                                                             *)
(***************************************************************************)
HistoryOf(cache, sessionId) == cache[sessionId].conversationHistory

\* C1: a history never holds more than 50 messages, and an addMessage on a
\* history of 50 drops exactly the oldest message, keeps the other 49 in
\* order and puts the new message last.
C1_HistoryBounded ==
  /\ [](\A s \in DOMAIN sessions : Len(HistoryOf(sessions, s)) <= 50)
  /\ [][ (/\ calls' # calls
          /\ ret'.op = "addMessage"
          /\ ~ret'.threw
          /\ ret'.sessionId \in DOMAIN sessions)
         => LET old == HistoryOf(sessions, ret'.sessionId)
                new == HistoryOf(sessions', ret'.sessionId)
            IN IF Len(old) = 50
               THEN /\ Len(new) = 50
                    /\ \A i \in 1..49 : new[i] = old[i + 1]
                    /\ new[50] = ret'.message
               ELSE new = Append(old, ret'.message) ]_vars

C1_Witness ==
  /\ ret.op = "addMessage"
  /\ ~ret.threw
  /\ Len(HistoryOf(sessions, 1)) = 50
  /\ HistoryOf(sessions, 1)[1] = OldMessage(3)
  /\ HistoryOf(sessions, 1)[48] = OldMessage(50)
  /\ HistoryOf(sessions, 1)[50] = ret.message

\* C2: when create_cart has succeeded earlier in the turn, add_to_cart is
\* invoked with the cartId create_cart returned.
C2_CartReferenceFed ==
  (req.pc = "tool_wait" /\ req.invocations[Len(req.invocations)].toolName = "add_to_cart")
  => \A j \in 1..Len(req.toolResults) :
       (req.toolResults[j].toolName = "create_cart" /\ req.toolResults[j].success)
       => LET call == req.invocations[Len(req.invocations)]
          IN /\ Has(call.params, "cartId")
             /\ call.params.cartId = req.toolResults[j].data.cartId

\* C3: no step of the session store turns a logged-in session back into a
\* guest session.
C3_UpgradeOneWay ==
  [][ \A s \in DOMAIN sessions :
        (sessions[s].userType = "logged-in" /\ s \in DOMAIN sessions')
        => sessions'[s].userType = "logged-in" ]_vars

C3_Witness ==
  /\ ret.op = "getOrCreateSession"
  /\ Has(ret.params, "sessionId")
  /\ ~Has(ret.params, "customerToken")
  /\ ret.sessionId = ret.params.sessionId
  /\ sessions[ret.sessionId].userType = "logged-in"
  /\ sessions[ret.sessionId].customerToken = "tokA"

\* C4: a turn that got as far as classification ends in a 500 response only
\* when the composition call failed.
C4_ClassificationNeverFatal ==
  (req.pc = "done" /\ Has(req, "classification") /\ req.statusCode = 500)
  => req.body.error = CompletionFailed

\* C5: when composition succeeds the turn ends with status 200 and success
\* true, and every failed tool appears in the tool summary of the composition
\* call with its error text.
C5_PartialFailureContained ==
  (req.pc = "done" /\ Has(req, "response"))
  => /\ req.statusCode = 200
     /\ req.body.success
     /\ req.body.response = req.response
     /\ \A i \in 1..Len(req.toolResults) :
          ~req.toolResults[i].success
          => LET prompt == req.messages[Len(req.messages)]
             IN /\ Len(prompt.toolContext) = Len(req.toolResults)
                /\ prompt.toolContext[i] =
                     [toolName |-> req.toolResults[i].toolName,
                      error |-> req.toolResults[i].error]

C5_Witness ==
  /\ req.pc = "done"
  /\ req.statusCode = 200
  /\ Len(req.toolResults) = 2
  /\ req.toolResults[2].toolName = "add_to_cart"
  /\ ~req.toolResults[2].success
  /\ req.toolResults[2].error = OutOfStock
  /\ req.messages[Len(req.messages)].toolContext[2].error = OutOfStock

NoJsonObject(text) == ~(RegexMatches(text) /\ JsonParses(RegexMatch(text)))

Classified == Has(req, "intent") /\ Has(req, "classification")

\* C6 as claimed: whenever the generated text holds no valid JSON object, the
\* intent is the one the keyword heuristic yields for the user message.
C6_NoJsonUsesHeuristic ==
  (Classified /\ ~req.classification.threw /\ NoJsonObject(req.classification.content))
  => req.intent = FallbackIntent(req.params.message)

\* C6 as amended: text with a brace-delimited region that is not valid JSON
\* gets the keyword heuristic; text without such a region is general_question
\* with no tools, whatever the user message says.
C6_NoJsonAmended ==
  (Classified /\ ~req.classification.threw /\ NoJsonObject(req.classification.content))
  => IF RegexMatches(req.classification.content)
     THEN req.intent = FallbackIntent(req.params.message)
     ELSE /\ req.intent.type = "general_question"
          /\ req.intent.requiresTools = FALSE
          /\ req.intent.suggestedTools = <<>>
          /\ ~req.withTools

C6_Witness ==
  /\ Classified
  /\ req.classification = [threw |-> FALSE, content |-> <<Word>>]
  /\ req.params.message = MsgShowRedShirts
  /\ req.intent.type = "general_question"
  /\ req.pc = "done"
  /\ req.body.toolsUsed = <<>>

SearchIntent(message) ==
  [type |-> "product_search", requiresTools |-> TRUE,
   suggestedTools |-> <<"search_products">>, parameters |-> [query |-> message]]

\* C7: when the classification call fails the intent depends on the message
\* alone: search keywords give product_search with search_products and the raw
\* message as query, also when "cart" occurs too and whatever the letter case;
\* otherwise "cart" gives view_cart with get_cart; otherwise general_question.
C7_FallbackDeterministic ==
  (Classified /\ req.classification.threw)
  => LET m == req.params.message
     IN /\ m = MsgShowRedShirts => req.intent = SearchIntent(MsgShowRedShirts)
        /\ m = MsgShowCart => req.intent = SearchIntent(MsgShowCart)
        /\ m = MsgMyCart =>
             req.intent = [type |-> "view_cart", requiresTools |-> TRUE,
                           suggestedTools |-> <<"get_cart">>,
                           parameters |-> EmptyObject]
        /\ m = MsgHello =>
             req.intent = [type |-> "general_question", requiresTools |-> FALSE,
                           suggestedTools |-> <<>>, parameters |-> EmptyObject]
        /\ m \in {MsgShowRedShirts, MsgShowCart, MsgMyCart, MsgHello}

C7_Witness ==
  /\ Classified
  /\ req.classification.threw
  /\ req.params.message = MsgShowCart
  /\ req.intent.type = "product_search"
  /\ req.pc = "tool_wait"
  /\ req.invocations[1].toolName = "search_products"
  /\ req.invocations[1].params.query = MsgShowCart

Suggests(intent) == Has(intent, "suggestedTools") /\ intent.suggestedTools # <<>>

\* C8 as claimed: requiresTools is true exactly when the suggested list is
\* non-empty.
C8_RequiresToolsDerived ==
  Classified => (Truthy(req.intent, "requiresTools") <=> Suggests(req.intent))

\* C8 as amended: the equivalence holds for the intents the classifier builds
\* itself (gateway failure, no JSON object in the text); an intent parsed from
\* the model's JSON is used as it is, and a completed turn has dispatched
\* tools exactly when requiresTools is true and tools are suggested, and has
\* composed from a tool summary exactly when requiresTools is true.
C8_RequiresToolsAmended ==
  Classified
  => /\ (req.classification.threw \/ NoJsonObject(req.classification.content))
        => (Truthy(req.intent, "requiresTools") <=> Suggests(req.intent))
     /\ (~req.classification.threw /\ ~NoJsonObject(req.classification.content))
        => req.intent \in ParsedIntents \cup {EmptyObject}
     /\ (req.pc = "done" /\ req.statusCode = 200)
        => /\ req.body.toolsUsed # <<>>
              <=> (Truthy(req.intent, "requiresTools") /\ Suggests(req.intent))
           /\ Has(req.messages[Len(req.messages)], "toolContext")
              <=> Truthy(req.intent, "requiresTools")

C8_Witness ==
  /\ Classified
  /\ req.pc = "done"
  /\ req.statusCode = 200
  /\ Has(req.intent, "requiresTools")
  /\ req.intent.requiresTools = FALSE
  /\ req.intent.suggestedTools = <<"get_cart">>
  /\ req.body.toolsUsed = <<>>

\* C9: results are collected one per suggested tool, in the suggested order;
\* a tool is invoked only when every earlier tool has its result; a failed
\* tool does not end the loop.
C9_SequentialDispatch ==
  (Has(req, "intent") /\ Has(req, "toolResults") /\ req.withTools)
  => LET suggested == req.intent.suggestedTools
         results == req.toolResults
     IN /\ Len(results) <= Len(suggested)
        /\ \A i \in 1..Len(results) : results[i].toolName = suggested[i]
        /\ req.pc = "tool_wait"
           => /\ Len(results) < Len(suggested)
              /\ req.invocations[Len(req.invocations)].toolName
                   = suggested[Len(results) + 1]
        /\ req.pc \in {"compose", "save_user", "save_assistant", "done"}
           => Len(results) = Len(suggested)

C9_Witness ==
  /\ req.pc = "compose"
  /\ req.withTools
  /\ req.intent.suggestedTools = <<"create_cart", "add_to_cart">>
  /\ Len(req.toolResults) = 2
  /\ ~req.toolResults[1].success
  /\ req.toolResults[2].success

\* C10: a tool name that is not registered gets a failed result whose error
\* names it, and the turn still ends with status 200 when composition succeeds.
C10_UnknownToolContained ==
  Has(req, "toolResults")
  => \A i \in 1..Len(req.toolResults) :
       ~IsRegistered(req.toolResults[i].toolName)
       => /\ ~req.toolResults[i].success
          /\ req.toolResults[i].error = "Unknown tool: delete_cart"
          /\ req.toolResults[i].toolName = "delete_cart"
          /\ (req.pc = "done" /\ Has(req, "response")) => req.statusCode = 200

C10_Witness ==
  /\ req.pc = "done"
  /\ req.statusCode = 200
  /\ Len(req.toolResults) = 2
  /\ req.toolResults[1].toolName = "delete_cart"
  /\ ~req.toolResults[1].success
  /\ req.toolResults[2].toolName = "get_cart"
  /\ req.body.toolsUsed = <<"delete_cart", "get_cart">>

\* C11: a gateway failure at the composition step ends the turn with status
\* 500, success = false and the gateway's error text; the turn stops there
\* and no reply is generated.
C11_CompositionFailureFatal ==
  (Has(req, "composition") /\ req.composition = "failed") =>
     /\ req.pc = "done"
     /\ req.statusCode = 500
     /\ req.body = ErrorBody(CompletionFailed)
     /\ ~Has(req, "response")

\* A composition failure after two tools ran.
C11_Witness ==
  /\ req.pc = "done"
  /\ Has(req, "composition")
  /\ req.composition = "failed"
  /\ Len(req.toolResults) = 2

\* C12: every finished request carries a well-formed envelope: statusCode is
\* 200, 400 or 500, body.success is true exactly when statusCode is 200, and a
\* body with success = false carries an error text; a request is always at
\* one of main's steps or finished with such a response.
C12_WellFormedEnvelope ==
  /\ req.pc = "done" =>
       /\ req.statusCode \in {200, 400, 500}
       /\ req.body.success = (req.statusCode = 200)
       /\ ~req.body.success => (Has(req.body, "error") /\ req.body.error # "")
  /\ req.pc \in {"idle", "done", "session", "agent", "classify", "tools",
                "tool_wait", "compose", "save_user", "save_assistant"}

\* A 500 produced by a message that is not a string.
C12_Witness ==
  /\ req.pc = "done"
  /\ req.statusCode = 500
  /\ req.body.error = NotAFunction

\* C13: a request whose message is missing or empty is answered 400 with
\* success = false, and the step that answers it changes no session, makes
\* no classification, tool or composition call.
C13_MissingMessageRejected ==
  /\ [](Has(req, "params") /\
        (~Has(req.params, "message") \/ req.params.message = EmptyString) =>
          /\ req.pc = "done"
          /\ req.statusCode = 400
          /\ req.body = [success |-> FALSE, error |-> MessageRequired]
          /\ DOMAIN req = {"pc", "statusCode", "body", "params"})
  /\ [][ (req'.pc = "done" /\ req'.statusCode = 400 /\ req' # req) =>
            (sessions' = sessions /\ storage' = storage /\ nextId' = nextId) ]_vars

\* An empty message sent with a session id and a cart id.
C13_Witness ==
  /\ req.pc = "done"
  /\ req.statusCode = 400
  /\ Has(req.params, "message")
  /\ Has(req.params, "sessionId")
  /\ Has(req.params, "cartId")
  /\ sessions = EmptyObject

\* C14: addMessage, updateCartId and clearHistory each fail with a not-found
\* error when the sessionId does not resolve to a live session.
C14_NotFoundFails ==
  (ret.op \in {"addMessage", "updateCartId", "clearHistory"} /\ ~ret.resolved)
     => ret.threw

\* C14 as amended: addMessage and updateCartId fail exactly when the
\* sessionId does not resolve; clearHistory never fails, and on a sessionId
\* that does not resolve it returns normally and changes nothing.
C14_NotFoundAmended ==
  /\ [](ret.op \in {"addMessage", "updateCartId"} => (ret.threw <=> ~ret.resolved))
  /\ [](ret.op = "clearHistory" => ~ret.threw)
  /\ [][ (calls' # calls /\ ret'.op = "clearHistory" /\ ~ret'.resolved)
            => (sessions' = sessions /\ storage' = storage) ]_vars

\* clearHistory of a session that no longer resolves returned normally.
C14_Witness ==
  /\ ret.op = "clearHistory"
  /\ ~ret.threw
  /\ ~ret.resolved
  /\ ret.sessionId \in IssuedIds

\* C15: a call of addMessage, updateCartId, clearHistory or getHistory with a
\* sessionId that does not resolve leaves the cache and the backing store
\* exactly as they were: no session is created.
C15_NoImplicitCreate ==
  [][ (/\ calls' # calls
       /\ ret'.op \in {"addMessage", "updateCartId", "clearHistory", "getHistory"}
       /\ ~ret'.resolved)
      => (sessions' = sessions /\ storage' = storage) ]_vars

\* getHistory of a session that is in the backing store but could not be
\* read from it.
C15_Witness ==
  /\ ret.op = "getHistory"
  /\ ~ret.resolved
  /\ ret.storageError
  /\ ret.sessionId \in DOMAIN storage.data
  /\ ret.sessionId \notin DOMAIN sessions

\* C16: a getOrCreateSession call whose sessionId is absent, unknown or was
\* just deleted creates a new session under a fresh id that differs from the
\* supplied id and from the id of every other session, and modifies no
\* existing session.
C16_FreshSession ==
  [][ (/\ calls' # calls
       /\ ret'.op = "getOrCreateSession"
       /\ \/ ~Has(ret'.params, "sessionId")
          \/ ret'.params.sessionId = BogusSessionId
          \/ ret.op = "deleteSession" /\ ret'.params.sessionId = ret.sessionId)
      => (/\ ret'.sessionId \notin DOMAIN sessions \cup DOMAIN storage.data
          /\ ret'.sessionId \notin IssuedIds
          /\ Has(ret'.params, "sessionId") => ret'.sessionId # ret'.params.sessionId
          /\ ret'.sessionId \in DOMAIN sessions'
          /\ \A k \in DOMAIN sessions : k \in DOMAIN sessions' /\ sessions'[k] = sessions[k]) ]_vars

\* C17: when a turn follows a successful turn of the same session, the
\* conversation history handed to processMessage, and the messages of its
\* composition call, hold the earlier turn's user message followed by the
\* earlier turn's assistant reply.
C17_HistoryCarriedOver ==
  (/\ req.pc \in {"save_user", "save_assistant"}
   /\ Has(req.params, "sessionId")
   /\ req.params.sessionId = client.sessionId)
  => /\ req.sessionId = client.sessionId
     /\ \E i \in 1..(Len(req.conversationHistory) - 1) :
          /\ req.conversationHistory[i].role = "user"
          /\ req.conversationHistory[i].content = client.message
          /\ req.conversationHistory[i + 1].role = "assistant"
          /\ req.conversationHistory[i + 1].content = client.response
     /\ \E i \in 1..(Len(req.messages) - 1) :
          /\ req.messages[i] = [role |-> "user", content |-> client.message]
          /\ req.messages[i + 1] = [role |-> "assistant", content |-> client.response]

\* The second turn asks for the first product after a product search.
C17_Witness ==
  /\ req.pc = "save_user"
  /\ turns = 2
  /\ req.params.message = MsgShowFirst
  /\ Has(req.params, "sessionId")
  /\ req.params.sessionId = client.sessionId
  /\ client.message = MsgShowRedShirts
  /\ req.withTools
  /\ Len(req.conversationHistory) = 2

\* C18: under every interleaving of concurrent addMessage calls on one
\* session no appended message is lost: the cached history is the stored
\* history followed by the messages in the order their appends took effect.
C18_AppendsAtomic ==
  ConcurrentSession \in DOMAIN sessions
  => HistoryOf(sessions, ConcurrentSession)
       = StoredSession.conversationHistory \o inflight.effected

\* C19: after a turn in which create_cart succeeded, the session's cartId
\* and the cartId of the turn's 200 response are the cart id that create_cart
\* returned.
C19_CartOverwritten ==
  (req.pc = "done" /\ req.statusCode = 200)
  => \A j \in 1..Len(req.toolResults) :
       (req.toolResults[j].toolName = "create_cart" /\ req.toolResults[j].success)
       => /\ req.body.cartId = req.toolResults[j].data.cartId
          /\ sessions[req.sessionId].cartId = req.toolResults[j].data.cartId

\* C20: when storage.get, storage.set or storage.delete throws, the operation
\* completes without raising and later reads observe the mutation: a session
\* whose deletion hit a failing storage.delete has no history to read.
C20_StorageFailuresSwallowed ==
  /\ [](ret.storageError => ~ret.threw)
  /\ [][ (/\ calls' # calls
          /\ ret.op = "deleteSession"
          /\ ret.storageError
          /\ ret'.op = "getHistory"
          /\ ret'.sessionId = ret.sessionId)
         => (~ret'.resolved /\ ret'.history = <<>>) ]_vars

\* The required parameters a dispatched call does not carry.
MissingParameters(call) ==
  {f \in RequiredParameters(call.toolName) : ~Has(call.params, f)}

\* C21: a registered tool called without one of its required parameters
\* sends no request to the backend and returns success = false with an error.
C21_RequiredParametersChecked ==
  Has(req, "backendCalls")
  => \A i \in 1..Len(req.invocations) :
       LET call == req.invocations[i]
       IN (IsRegistered(call.toolName) /\ MissingParameters(call) # {})
          => /\ \A k \in 1..Len(req.backendCalls) :
                  req.backendCalls[k].position # call.position
             /\ Len(req.toolResults) >= call.position
                => /\ ~req.toolResults[call.position].success
                   /\ Has(req.toolResults[call.position], "error")

\* The names of the registered tools that were executed, in dispatch order.
ExecutedTools(r) ==
  LET executed == SelectSeq(r.invocations, LAMBDA call : IsRegistered(call.toolName))
  IN [i \in 1..Len(executed) |-> executed[i].toolName]

\* C22: toolsUsed of a 200 response lists, in dispatch order, exactly the
\* names for which a registered tool was executed, and it is empty when the
\* intent required no tools.
C22_ToolsUsedAreExecuted ==
  (req.pc = "done" /\ req.statusCode = 200)
  => /\ req.body.toolsUsed = ExecutedTools(req)
     /\ ~req.withTools => req.body.toolsUsed = <<>>

\* C23: nothing is retried within a turn: one classification call and at
\* most one composition call are made, every position of the suggested tools
\* is dispatched at most once, and every dispatched call sends at most one
\* request to the backend.
C23_NothingRetried ==
  Has(req, "llmCalls")
  => /\ req.llmCalls \in {1, 2}
     /\ req.llmCalls = 2 <=> Has(req, "composition")
     /\ Has(req, "backendCalls")
        => /\ \A i \in 1..Len(req.invocations) :
                req.invocations[i].position \in 1..Len(req.intent.suggestedTools)
           /\ \A i, j \in 1..Len(req.invocations) :
                i < j => req.invocations[i].position < req.invocations[j].position
           /\ \A i, j \in 1..Len(req.backendCalls) :
                i < j => req.backendCalls[i].position < req.backendCalls[j].position
           /\ \A k \in 1..Len(req.backendCalls) :
                \E i \in 1..Len(req.invocations) :
                  /\ req.invocations[i].position = req.backendCalls[k].position
                  /\ req.invocations[i].toolName = req.backendCalls[k].toolName

\* A finished turn with two tools: two gateway calls, two backend requests.
C23_Witness ==
  /\ req.pc = "done"
  /\ req.statusCode = 200
  /\ req.llmCalls = 2
  /\ Len(req.invocations) = 2
  /\ Len(req.backendCalls) = 2

\* The provider of the configuration is supported and its credential or
\* endpoint is present.
Configured(config) ==
  \/ Provider(config) = "ollama" /\ Has(config, "ollamaBaseUrl")
  \/ Provider(config) = "openai" /\ Has(config, "openaiApiKey")
  \/ Provider(config) = "claude" /\ Has(config, "claudeApiKey")
  \/ Provider(config) = "gemini" /\ Has(config, "geminiApiKey")

\* C24: the LLMProvider constructor throws exactly for the configurations
\* whose provider is unsupported or lacks its credential or endpoint, and a
\* turn whose agent was created from such settings, or whose tools fail to
\* initialise, ends with status 500 before any classification, tool or
\* composition call was made.
C24_ConfigurationCheckedFirst ==
  /\ \A config \in ProviderConfigs :
       validateConfig(config) = NoError <=> Configured(config)
  /\ Has(req, "config")
     => IF Configured(req.config) /\ initialize(req.env) = NoError
        THEN req.pc = "classify"
        ELSE /\ req.pc = "done"
             /\ req.statusCode = 500
             /\ req.body.error = IF Configured(req.config) THEN initialize(req.env)
                                 ELSE validateConfig(req.config)
             /\ ~Has(req, "classification")
             /\ ~Has(req, "llmCalls")
             /\ ~Has(req, "invocations")
             /\ ~Has(req, "composition")

\* A turn refused because the Gemini provider has no GOOGLE_API_KEY.
C24_Witness ==
  /\ req.pc = "done"
  /\ Has(req, "config")
  /\ req.config.provider = "gemini"
  /\ ~Has(req.config, "geminiApiKey")
  /\ req.statusCode = 500
  /\ req.body.error = "GOOGLE_API_KEY is required for Gemini provider"

\* The index of the first entry of a Gemini payload that carries a message
\* other than a system message, or one past the end when there is none.
FirstPlain(contents) ==
  IF \E k \in 1..Len(contents) : contents[k].parts[1].text \in PlainContents
  THEN CHOOSE k \in 1..Len(contents) :
         /\ contents[k].parts[1].text \in PlainContents
         /\ \A h \in 1..(k - 1) : contents[h].parts[1].text \notin PlainContents
  ELSE Len(contents) + 1

\* The payload carries the content at or before its first non-system message.
InOpening(provider, payload, content) ==
  IF provider = "claude"
  THEN Has(payload, "system") /\ includes(payload.system, content)
  ELSE \E k \in 1..Len(payload.contents) :
         /\ k <= FirstPlain(payload.contents)
         /\ includes(payload.contents[k].parts[1].text, content)

\* C25: for the providers without a system role in their message list
\* (Claude, Gemini), the content of every system message of the input, whatever
\* their number and position, is in the payload at or before the first
\* non-system message.
C25_SystemMessagesFolded ==
  (req.pc = "sent" /\ req.provider \in {"claude", "gemini"})
  => \A i \in 1..Len(req.messages) :
       req.messages[i].role = "system"
       => InOpening(req.provider, req.payload, req.messages[i].content)

\* The request {message: "hello"} of a caller without a session.
HelloRequest ==
  /\ Has(req, "params")
  /\ req.params = [message |-> MsgHello]

\* The body the testing guide expects for the hello request.
GreetingBody ==
  /\ req.statusCode = 200
  /\ req.body.success
  /\ req.body.sessionId = nextId - 1
  /\ req.body.sessionId \in DOMAIN sessions
  /\ Len(HistoryOf(sessions, req.body.sessionId)) = 2
  /\ req.body.userType = "guest"
  /\ req.body.toolsUsed = <<>>
  /\ req.body.intent = "greeting"

Phase(r) ==
  CASE r.pc = "idle" -> 0
    [] r.pc = "session" -> 1
    [] r.pc = "agent" -> 2
    [] r.pc = "classify" -> 3
    [] r.pc \in {"tools", "tool_wait"} -> 4
    [] r.pc = "compose" -> 5
    [] r.pc \in {"save_user", "save_assistant"} -> 6
    [] r.pc = "done" -> 7

\* Some session's history is longer after the step than before it.
Appended ==
  \E id \in DOMAIN sessions' :
    Len(HistoryOf(sessions', id))
      > (IF id \in DOMAIN sessions THEN Len(HistoryOf(sessions, id)) ELSE 0)

\* C27: within one request the steps occur in the order session resolved,
\* intent classified, tools dispatched, response composed, history updated,
\* done, and none is revisited; tools are dispatched exactly when the intent
\* requires them; the history is read before classification and is appended
\* to only after the composition succeeded.
C27_StepsInOrder ==
  /\ [][ IF turns' = turns
         THEN /\ Phase(req') >= Phase(req)
              /\ Phase(req') = Phase(req) => Phase(req) \in {4, 6}
              /\ (req.pc = "save_assistant") => req'.pc = "done"
         ELSE req.pc \in {"idle", "done"} /\ Phase(req') \in {1, 7} ]_vars
  /\ [](req.pc \in {"tools", "tool_wait"} =>
          req.withTools /\ Len(req.toolResults) < Len(req.intent.suggestedTools))
  /\ [](req.pc = "compose" =>
          IF req.withTools /\ Has(req.intent, "suggestedTools")
          THEN Len(req.toolResults) = Len(req.intent.suggestedTools)
          ELSE req.toolResults = <<>> /\ req.invocations = <<>>)
  /\ [](Phase(req) \in 2..6 => Has(req, "conversationHistory"))
  /\ [][ (Phase(req) \in 2..6 /\ Phase(req') \in 2..6)
         => req'.conversationHistory = req.conversationHistory ]_vars
  /\ [][ Appended => /\ req.pc \in {"save_user", "save_assistant"}
                     /\ req.composition = "ok" ]_vars

\* A finished turn that went through every step, with two tools dispatched
\* and the two messages of the turn appended after the history it had read.
C27_Witness ==
  /\ req.pc = "done"
  /\ req.statusCode = 200
  /\ req.withTools
  /\ Len(req.toolResults) = 2
  /\ req.composition = "ok"
  /\ Len(HistoryOf(sessions, req.sessionId)) = Len(req.conversationHistory) + 2

\* C28: in every state of the session store a session is logged-in exactly
\* when it holds a customer token; a guest holds none.
C28_UserTypeMatchesToken ==
  \A id \in DOMAIN sessions :
    /\ sessions[id].userType \in {"guest", "logged-in"}
    /\ sessions[id].userType = "logged-in" <=> sessions[id].customerToken # Null

\* A session fetched with a token that is logged-in with it, next to a guest.
C28_Witness ==
  /\ ret.op = "getOrCreateSession"
  /\ Has(ret.params, "sessionId")
  /\ Has(ret.params, "customerToken")
  /\ ret.sessionId = ret.params.sessionId
  /\ sessions[ret.sessionId].userType = "logged-in"
  /\ sessions[ret.sessionId].customerToken = ret.params.customerToken
  /\ \E id \in DOMAIN sessions :
       sessions[id].userType = "guest" /\ sessions[id].customerToken = Null

\* C29: when the session context carries a cart, every dispatched tool
\* receives that cart as cartId, whatever cartId the classifier extracted,
\* and every dispatched tool receives the session's customer token and cart
\* as its context.
C29_ContextCartWins ==
  Has(req, "invocations")
  => \A i \in 1..Len(req.invocations) :
       LET call == req.invocations[i]
       IN /\ call.context.customerToken = sessions[req.sessionId].customerToken
          /\ call.context.cartId = sessions[req.sessionId].cartId
          /\ call.context.cartId # Null
             => Has(call.params, "cartId") /\ call.params.cartId = call.context.cartId

\* add_to_cart dispatched for a logged-in shopper whose session cart differs
\* from the cart the classifier extracted.
C29_Witness ==
  /\ Has(req, "invocations")
  /\ Len(req.invocations) = 1
  /\ req.invocations[1].toolName = "add_to_cart"
  /\ req.intent.parameters.cartId = ClassifierCart
  /\ req.invocations[1].context = [customerToken |-> "tokA", cartId |-> CallerCart]
  /\ req.invocations[1].params.cartId = CallerCart

\* The n most recent messages of a history, oldest first.
MostRecent(history, n) ==
  SubSeq(history, Len(history) - Min(n, Len(history)) + 1, Len(history))

\* C30: getHistory(sessionId, limit) returns, for every limit >= 0, the
\* min(limit, length) most recent messages of the session in order (none for
\* limit 0), and the empty sequence when the sessionId does not resolve.
C30_RecentHistory ==
  ret.op = "getHistory"
  => ret.history = IF ret.resolved
                   THEN MostRecent(HistoryOf(sessions, ret.sessionId), ret.limit)
                   ELSE <<>>

\* C31: the message list of the composition call is the system prompt, then
\* the most recent history messages of the session in order (the last 6 when
\* the intent required tools, the last 10 otherwise), then exactly one final
\* user message: the tool summary turn or the raw user message.
C31_CompositionMessages ==
  (req.pc = "save_user")
  => LET history == HistoryOf(sessions, req.sessionId)
         window == IF req.withTools THEN ToolsHistoryWindow ELSE DirectHistoryWindow
         recent == MostRecent(history, window)
         final == req.messages[Len(req.messages)]
     IN /\ Len(req.messages) = Len(recent) + 2
        /\ req.messages[1] = SystemMessage
        /\ \A i \in 1..Len(recent) :
             /\ req.messages[i + 1].role = recent[i].role
             /\ req.messages[i + 1].content = recent[i].content
        /\ final.role = "user"
        /\ IF req.withTools
           THEN /\ final.question = req.params.message
                /\ Len(final.toolContext) = Len(req.toolResults)
           ELSE final.content = req.params.message

\* A reply composed after tools for a session with more than ten messages:
\* the list holds the system prompt, six history messages and the summary.
C31_Witness ==
  /\ req.pc = "save_user"
  /\ req.withTools
  /\ Len(req.toolResults) > 0
  /\ Len(HistoryOf(sessions, req.sessionId)) > DirectHistoryWindow
  /\ Len(req.messages) = ToolsHistoryWindow + 2

\* after is before with some of its oldest messages evicted and one message
\* appended last.
EvictedAndAppended(before, after) ==
  /\ Len(after) >= 1
  /\ \E k \in 0..Len(before) :
       SubSeq(after, 1, Len(after) - 1) = SubSeq(before, k + 1, Len(before))

\* C32: a history changes only by an append, after which the messages that
\* remain keep their content and order, removals are from the oldest end and
\* the new message is last, or by clearHistory, which empties it.
C32_AppendOnly ==
  [][ \A id \in DOMAIN sessions \cap DOMAIN sessions' :
        LET before == HistoryOf(sessions, id)
            after == HistoryOf(sessions', id)
        IN \/ after = before
           \/ EvictedAndAppended(before, after)
           \/ ret'.op = "clearHistory" /\ ret'.sessionId = id /\ after = <<>> ]_vars

\* Every cached session has an equal copy in the backing store.
WrittenThrough(cache, store) ==
  \A id \in DOMAIN cache :
    id \in DOMAIN store.data /\ store.data[id] = cache[id]

C34_StaleSessionsRemoved ==
  [][ (calls' # calls /\ ret'.op = "cleanupOldSessions")
      => \A id \in DOMAIN sessions \cup DOMAIN storage.data :
           LET session == loadSession(sessions, storage, id)
           IN IF session.metadata.lastActivity < ret'.cutoffTime
              THEN /\ id \notin DOMAIN sessions'
                   /\ id \notin DOMAIN storage'.data
                   /\ ~Resolves(sessions', storage', id, TRUE)
              ELSE /\ Resolves(sessions', storage', id, TRUE)
                   /\ loadSession(sessions', storage', id) = session ]_vars

\* The step is a step of the call or turn p.
Actor(p) == inflight'.call[p].pc # inflight.call[p].pc

\* The sessions the step is addressed to: that of the store operation, of
\* the concurrent turn or of the request being served.
Addressed ==
  (IF calls' # calls /\ Has(ret', "sessionId") THEN {ret'.sessionId} ELSE {})
  \cup {inflight'.call[p].sessionId : p \in {q \in Procs : Actor(q)}}
  \cup (IF req' # req /\ Has(req', "sessionId") THEN {req'.sessionId} ELSE {})

Entry(f, id) == IF id \in DOMAIN f THEN <<f[id]>> ELSE <<>>

\* C35: a step of an operation or of a turn addressed to one session leaves
\* every other session as it was, in the cache and in the backing store,
\* however the steps of concurrent turns interleave.
C35_SessionsIndependent ==
  [][ Addressed # {}
      => \A id \in (DOMAIN sessions \cup DOMAIN storage.data) \ Addressed :
           /\ Entry(sessions', id) = Entry(sessions, id)
           /\ Entry(storage'.data, id) = Entry(storage.data, id) ]_vars

\* Turn "b" has appended both its messages to the second session while the
\* write of turn "a" to the first session is pending.
C35_Witness ==
  /\ inflight.call["a"].pc = "set"
  /\ Has(inflight.call["b"], "sessionId")
  /\ inflight.call["b"].sessionId = 2
  /\ Effected(TurnMessage("b", "assistant"))
  /\ HistoryOf(sessions, 2) = <<TurnMessage("b", "user"), TurnMessage("b", "assistant")>>
  /\ HistoryOf(sessions, ConcurrentSession)
       = Append(StoredSession.conversationHistory, TurnMessage("a", "user"))

\* Every session is registered under its own sessionId.
KeyedBySessionId(f) == \A id \in DOMAIN f : f[id].sessionId = id

\* C36: every session of the cache and of the backing store is registered
\* under its own sessionId and keeps it; a request is served on the session
\* of its sessionId exactly when that id resolves to a live session, and
\* otherwise on a newly created one; the 200 response carries the id of the
\* session the request was served on.
C36_SessionIdIsKey ==
  /\ [](KeyedBySessionId(sessions) /\ KeyedBySessionId(storage.data))
  /\ []((req.pc = "done" /\ req.statusCode = 200)
        => /\ req.body.sessionId = req.sessionId
           /\ req.sessionId \in DOMAIN sessions)
  /\ [][ /\ \A id \in DOMAIN sessions \cap DOMAIN sessions' :
              sessions'[id].sessionId = sessions[id].sessionId
         /\ (req.pc = "session" /\ req'.pc = "agent")
            => LET live == /\ Has(req.params, "sessionId")
                           /\ Resolves(sessions, storage, req.params.sessionId, TRUE)
               IN /\ req'.params = req.params
                  /\ live <=> (Has(req.params, "sessionId")
                               /\ req'.sessionId = req.params.sessionId)
                  /\ ~live => /\ req'.sessionId \notin DOMAIN sessions
                              /\ req'.sessionId \in DOMAIN sessions' ]_vars

\* A 200 response to a request that sent the id of a live session, carrying
\* that id.
C36_Witness ==
  /\ req.pc = "done"
  /\ req.statusCode = 200
  /\ Has(req.params, "sessionId")
  /\ req.body.sessionId = req.params.sessionId
  /\ Len(HistoryOf(sessions, req.body.sessionId)) > 2

\* C37: a session that holds a customer token keeps that token and its
\* userType in every step, whatever token a request for it supplies, and the
\* tool calls of a turn and the requests they send to Magento carry the
\* token the session holds.
C37_CredentialKept ==
  /\ [][ \A id \in DOMAIN sessions \cap DOMAIN sessions' :
           sessions[id].customerToken # Null
           => /\ sessions'[id].customerToken = sessions[id].customerToken
              /\ sessions'[id].userType = sessions[id].userType ]_vars
  /\ [](Has(req, "invocations")
        => /\ \A i \in 1..Len(req.invocations) :
                req.invocations[i].context.customerToken
                  = sessions[req.sessionId].customerToken
           /\ \A i \in 1..Len(req.backendCalls) :
                req.backendCalls[i].customerToken
                  \in {Null, sessions[req.sessionId].customerToken})

\* A request that supplied "tokB" for the session that holds "tokA": the
\* session still holds "tokA" and the cart query was sent with "tokA".
C37_Witness ==
  /\ req.pc = "done"
  /\ req.statusCode = 200
  /\ Has(req.params, "customerToken")
  /\ req.params.customerToken = "tokB"
  /\ sessions[req.sessionId].customerToken = "tokA"
  /\ sessions[req.sessionId].userType = "logged-in"
  /\ Len(req.backendCalls) = 1
  /\ req.backendCalls[1].toolName = "get_cart"
  /\ req.backendCalls[1].customerToken = "tokA"

\* The step is getOrCreateSession called with sessionId id, by a client of
\* the store or by main for the request it serves.
GetOrCreateOn(id) ==
  \/ /\ calls' # calls
     /\ ret'.op = "getOrCreateSession"
     /\ Has(ret'.params, "sessionId")
     /\ ret'.params.sessionId = id
  \/ /\ req.pc = "session"
     /\ req'.pc = "agent"
     /\ Has(req.params, "sessionId")
     /\ req.params.sessionId = id

\* C38: getOrCreateSession called with the sessionId of an existing session
\* returns that session and leaves its cartId, history, sessionId and
\* createdAt as they were, whatever cartId the caller supplied.
C38_ExistingSessionKept ==
  [][ \A id \in DOMAIN sessions :
        GetOrCreateOn(id)
        => /\ id \in DOMAIN sessions'
           /\ nextId' = nextId
           /\ sessions'[id].cartId = sessions[id].cartId
           /\ sessions'[id].conversationHistory = sessions[id].conversationHistory
           /\ sessions'[id].sessionId = sessions[id].sessionId
           /\ Has(sessions[id], "metadata")
              => /\ Has(sessions'[id], "metadata")
                 /\ sessions'[id].metadata.createdAt = sessions[id].metadata.createdAt ]_vars

\* A request that supplied a cart for the guest session without a cart has
\* been served: the session has no cart and the response names none.
C38_Witness ==
  /\ req.pc = "done"
  /\ req.statusCode = 200
  /\ req.sessionId = 2
  /\ Has(req.params, "cartId")
  /\ req.params.cartId = CallerCart
  /\ sessions[2].cartId = Null
  /\ req.body.cartId = Null
  /\ sessions[2].metadata.createdAt = CreatedAt

\* The steps of a turn from the resolved session up to the composition call.
BeforeSaving == {"agent", "classify", "tools", "tool_wait", "compose"}

\* C39: from the moment a turn has its session until its composition call
\* returns, the session's history is the one the turn read with getHistory;
\* only the two save steps of a turn change a history; and the step in which
\* agent creation or composition fails ends the turn with a 500 response and
\* changes no session.
C39_FailedTurnAppendsNothing ==
  /\ [](req.pc \in BeforeSaving
        => MostRecent(HistoryOf(sessions, req.sessionId), DefaultHistoryLimit)
             = req.conversationHistory)
  /\ [][ /\ req.pc \notin {"save_user", "save_assistant"}
            => \A id \in DOMAIN sessions' :
                 HistoryOf(sessions', id)
                   = IF id \in DOMAIN sessions THEN HistoryOf(sessions, id) ELSE <<>>
         /\ (req.pc \in {"agent", "compose"} /\ req'.pc = "done")
            => /\ req'.statusCode = 500
               /\ sessions' = sessions
               /\ storage' = storage ]_vars

\* The composition call of a turn on the existing session failed: the
\* response is 500 and the session holds the messages it held before.
C39_Witness ==
  /\ req.pc = "done"
  /\ req.statusCode = 500
  /\ req.body.error = CompletionFailed
  /\ turns = 1
  /\ DOMAIN sessions = {1}
  /\ \E n \in (ToolsHistoryWindow - 1)..(DirectHistoryWindow + 1) :
       HistoryOf(sessions, 1) = OldHistory(n)

====
